---- MODULE Spec2Model ----
(***************************************************************************)
(* Storefront crawlers of jakan_store_ds: the pagination walkers of        *)
(* kilimall_scraper_optimized.py (scrape_store_optimized),                 *)
(* kilimall_scraper.py (scrape_by_store_id), kilimall_scraper_backup.py    *)
(* (scrape_store, detect_page_builder) and oraimo_scrapper_bq.py           *)
(* (scrape_category), with their URL canonicalisation and de-duplication.  *)
(*                                                                         *)
(* A fetch is one call of fetch(url): it answers None (no content after    *)
(* its retries) or a body, and the body is identified with the list of     *)
(* product tiles the page parser extracts from it.                         *)
(***************************************************************************)
EXTENDS Integers, Sequences, FiniteSets, TLC

\* ------------------------------------------------------------------ bounds
\* Distinct listings the modelled storefront can serve.
NumListings == 2
\* Most tiles on one page.
MaxTiles == 2

\* ------------------------------------------------------------------- URLs
KilimallHost == "www.kilimall.co.ke"

\* A parsed URL (urllib.parse.urlparse): the path is a listing number with
\* a count of trailing slashes; query and fragment are "" when absent.
MkUrl(scheme, host, path, slashes, query, fragment) ==
    [scheme |-> scheme, host |-> host, path |-> path, slashes |-> slashes,
     query |-> query, fragment |-> fragment]

\* href attributes the storefront serves: /listing/<i> for every listing,
\* and listing 1 also behind a tracking query (/listing/1?from=store).
Hrefs ==
    { MkUrl("", "", i, 0, "", "") : i \in 1..NumListings }
        \cup { MkUrl("", "", 1, 0, "from=store", "") }

\* urljoin(BASE_URL, href): a relative href takes the base's scheme and host.
absolute_url(href) ==
    [href EXCEPT !.scheme = IF href.scheme = "" THEN "https" ELSE href.scheme,
                 !.host = IF href.host = "" THEN KilimallHost ELSE href.host]

\* A canonical URL that loses one trailing slash only.
canonical_product_url_OneSlashLess(url) ==
    MkUrl(IF url.scheme = "" THEN "https" ELSE url.scheme, KilimallHost,
          url.path, IF url.slashes > 0 THEN url.slashes - 1 ELSE 0, "", "")
\* scheme + fixed host + path without trailing slashes; query, fragment dropped.
canonical_product_url(url) ==
    MkUrl(IF url.scheme = "" THEN "https" ELSE url.scheme, KilimallHost,
          url.path, 0, "", "")

\* ------------------------------------------------------------ sequences
RECURSIVE SeqSum(_)
SeqSum(s) == IF s = <<>> THEN 0 ELSE Head(s) + SeqSum(Tail(s))

Range(s) == { s[i] : i \in 1..Len(s) }

\* All sequences over S of length at most n.
SeqsUpTo(S, n) == UNION { [1..k -> S] : k \in 0..n }

\* --------------------------------------------------------------- fetches
None == [ok |-> FALSE, tiles |-> <<>>]
Body(tiles) == [ok |-> TRUE, tiles |-> tiles]

\* What one page can hold: any tiles, in any order, repeats included.
Pages == SeqsUpTo({ absolute_url(h) : h \in Hrefs }, MaxTiles)

\* What fetch(url) can answer when the storefront is left free.
FreeResponses == {None} \cup { Body(p) : p \in Pages }

\* ------------------------------------------- kilimall_scraper_optimized.py
\* PAGINATION_STRATEGIES: a page count (pages 1..n) or a literal value list.
PAGINATION_STRATEGIES ==
    << [name |-> "pageNo", url_pattern |-> "?pageNo={}", max_pages |-> 4],
       [name |-> "price_desc", url_pattern |-> "?sort=price_desc&page={}", max_pages |-> 3],
       [name |-> "sales", url_pattern |-> "?sort=sales&page={}", max_pages |-> 3],
       [name |-> "pageNum", url_pattern |-> "?pageNum={}", max_pages |-> 4],
       [name |-> "offset", url_pattern |-> "?offset={}", values |-> <<0, 32, 64, 96>>] >>

\* A page range that runs one page too far.
StrategyValues_OnePageMore(strategy) ==
    IF "values" \in DOMAIN strategy
        THEN strategy.values
        ELSE [i \in 1..(strategy.max_pages + 1) |-> i]

\* The values one strategy iterates over (isinstance(..., list) or range).
StrategyValues(strategy) ==
    IF "values" \in DOMAIN strategy
        THEN strategy.values
        ELSE [i \in 1..strategy.max_pages |-> i]

\* The page budget of a strategy: the number of values it may request.
PageBudget(strategy) == Len(StrategyValues(strategy))

\* parse_products(html): fetch's "" parses to no product at all.
parse_products(res) == IF res.ok THEN res.tiles ELSE <<>>

\* The key a product is tracked by in all_products: its product_url as is.
ProductKey(product_url) == product_url

\* A merge that takes every product of the page.
NewProducts_NoDedup(products, all_products) == products

\* The products of one page that are not tracked yet, in page order; each
\* is tracked as soon as it is taken, so a repeat on the page is not new.
RECURSIVE NewProducts(_, _)
NewProducts(products, all_products) ==
    IF products = <<>> THEN <<>>
    ELSE LET p == Head(products)
         IN  IF ProductKey(p) \notin all_products
                 THEN <<p>> \o NewProducts(Tail(products),
                                           all_products \cup {ProductKey(p)})
                 ELSE NewProducts(Tail(products), all_products)

\* A stop test without the exemption of the first value.
StopStrategy_AnyEmptyPage(new_count, value, values) == new_count = 0

\* A stop test that spares every value but the first.
StopStrategy_OnFirstOnly(new_count, value, values) ==
    new_count = 0 /\ value = values[1]

\* "Stop this strategy if no new products found": not on the first value.
StopStrategy(new_count, value, values) ==
    new_count = 0 /\ value # values[1]

\* --------------------------------------------------- kilimall_scraper.py
\* Safety cap on the pages of one store (400 in the source; scaled down).
MAX_PAGES_PER_STORE == 4
\* Stop after this many consecutive pages without a new item.
MAX_EMPTY_PAGES == 3

\* The parameter variants subpage_candidates builds for one index.
Variants ==
    << "typeName&pageNum", "typeName&page", "typeName&pageNo", "pageNum&typeName",
       "typeName&pageNum&pageSize=36", "typeName&pageNum&pageSize=32",
       "typeName&pageNum&pageSize=48" >>

\* s without the elements of `tried` and without its own repeats.
RECURSIVE NotTried(_, _)
NotTried(s, tried) ==
    IF s = <<>> THEN <<>>
    ELSE IF Head(s) \in tried THEN NotTried(Tail(s), tried)
    ELSE <<Head(s)>> \o NotTried(Tail(s), tried \cup {Head(s)})

\* subpage_candidates(store_id, page): the zero-based index, then the
\* one-based index, each under every parameter variant, no URL twice.
subpage_candidates(p) ==
    LET idxs == IF p = 1 THEN <<0, 1>> ELSE <<p - 1, p>>
        n == Len(Variants)
        all == [k \in 1..(Len(idxs) * n) |->
                   [idx |-> idxs[((k - 1) \div n) + 1],
                    variant |-> Variants[((k - 1) % n) + 1]]]
    IN  NotTried(SelectSeq(all, LAMBDA c : c.idx >= 0), {})

\* A while condition without the page cap.
KeepPaging_NoPageCap(p, streak) == streak < MAX_EMPTY_PAGES

\* The while condition of scrape_by_store_id.
KeepPaging(p, streak) ==
    p <= MAX_PAGES_PER_STORE /\ streak < MAX_EMPTY_PAGES

\* The items of one batch whose canonical URL is not in seen_paths yet, in
\* batch order, each with its product_url set to the canonical URL.
RECURSIVE NewItems(_, _)
NewItems(batch, seen_paths) ==
    IF batch = <<>> THEN <<>>
    ELSE LET canon == canonical_product_url(Head(batch))
         IN  IF canon \in seen_paths
                 THEN NewItems(Tail(batch), seen_paths)
                 ELSE <<canon>> \o NewItems(Tail(batch), seen_paths \cup {canon})

\* A streak that a page with a new item leaves as it is.
NextStreak_NoReset(streak, new_found) == IF new_found THEN streak ELSE streak + 1
\* empty_streak after a page: one more without a new item, else back to 0.
NextStreak(streak, new_found) == IF new_found THEN 0 ELSE streak + 1

\* ------------------------------------------- kilimall_scraper_backup.py
\* Page cap of one store, shared out among the sort strategies.
MAX_PAGES == 30

\* The sorted views of the store scrape_store walks, in order.
sort_strategies ==
    << "", "?sort=price_asc", "?sort=price_desc", "?sort=newest", "?sort=rating",
       "?orderBy=price", "?orderBy=sales" >>

\* The query parameter names detect_page_builder probes, in order.
PARAM_CANDIDATES ==
    << "page", "p", "pageNo", "pageNum", "current", "currentPage", "curPage",
       "pn", "index", "page_index", "pageIndex", "start", "offset", "from",
       "begin", "skip", "limit" >>

\* The sort probes that follow them: every value under every parameter.
SortProbes ==
    LET params == << "sort", "sortBy", "orderBy" >>
        values == << "price_asc", "price_desc", "name", "newest", "rating" >>
        n == Len(values)
    IN  [k \in 1..(Len(params) * n) |->
            [sort_param |-> params[((k - 1) \div n) + 1],
             sort_value |-> values[((k - 1) % n) + 1]]]

NumProbes == Len(PARAM_CANDIDATES) + Len(SortProbes)

\* Whether probe k returns a builder: a parameter probe on any new item, a
\* sort probe on more than five.
ProbeFinds(k, new_count) ==
    IF k <= Len(PARAM_CANDIDATES) THEN new_count > 0 ELSE new_count > 5

Min(a, b) == IF a <= b THEN a ELSE b

\* range(2, min(MAX_PAGES // len(sort_strategies) + 1, 10)): the pages
\* requested through the builder.
PaginatedPages ==
    LET stop == Min((MAX_PAGES \div Len(sort_strategies)) + 1, 10)
    IN  [i \in 1..(IF stop > 2 THEN stop - 2 ELSE 0) |-> i + 1]

\* parse_store_page(html): the tiles of the page, a repeated href once.
parse_store_page(res) == IF res.ok THEN NotTried(res.tiles, {}) ELSE <<>>

\* The items of a probed page that are not in seen_urls (nothing is recorded).
ProbeNew(items, seen_urls) == SelectSeq(items, LAMBDA u : u \notin seen_urls)

\* ------------------------------------------------- oraimo_scrapper_bq.py
\* Safety cap on the pages of one collection (60 in the source; scaled down).
MAX_PAGES_PER_COLLECTION == 3
\* The largest page count a first page announces.
MaxTotalPages == 4

\* What get_total_pages(html) can answer.
TotalPages == 0..MaxTotalPages

\* The items of a page whose product_url is not in seen_urls; seen_urls is
\* updated after the page, so a tile repeated on a new page stays twice.
NewUrls(items, seen_urls) == SelectSeq(items, LAMBDA u : u \notin seen_urls)

\* ------------------------------------------------------------------ state
VARIABLES
    prog,            \* the crawl function that runs
    site,            \* how the storefront answers: "free" or a scripted scenario
    strategies,      \* the configured strategy list (optimized)
    pc,              \* the position in the crawl function
    si,              \* index of the current strategy (optimized, backup)
    vi,              \* index of the current value of the strategy (optimized)
    seen,            \* all_products / seen_paths: the keys recorded so far
    rows,            \* rows / all_items: the product URL of every record, in order
    strategy_found,  \* new products of the current strategy (optimized)
    new_products,    \* new products of the page handled last
    html_ok,         \* whether the fetch handled last returned content
    fetched,         \* fetch calls issued so far, per strategy (optimized)
    requests,        \* fetch calls issued so far (optimized, by_store_id, oraimo_bq)
    page,            \* page counter (by_store_id, backup, oraimo_bq)
    cand,            \* index of the next URL candidate of the page (by_store_id)
    empty_streak,    \* consecutive pages without a new item (by_store_id)
    got_new,         \* whether the current page produced a new item (by_store_id)
    probe,           \* index of the next probe of detect_page_builder (backup)
    builder,         \* the probe whose URL builder was returned, 0 for None (backup)
    started,         \* the strategies whose page 1 was requested (backup)
    max_pages,       \* pages to scrape, from the first page (oraimo_bq)
    store,           \* run(): position in STORES / CATEGORY_SLUGS, 0 outside a run
    everything,      \* run(): everything / all_rows, the rows of the stores so far
    returned,        \* run(): what each crawl returned, and whether its first fetch failed
    writes,          \* the calls made on the sink, in order, with their outcome
    call,            \* one call of fetch(url): its HTTP exchanges, sleeps and result
    url,             \* canonical_product_url applied to a URL text, and applied again
    extract          \* decode_html_from_json and parse_product_tiles applied to one body

vars == <<prog, site, strategies, pc, si, vi, seen, rows, strategy_found,
          new_products, html_ok, fetched, requests, page, cand, empty_streak,
          got_new, probe, builder, started, max_pages, store, everything,
          returned, writes, call, url, extract>>

runVars == <<store, everything, returned, writes>>

bkVars == <<probe, builder, started>>

byIdVars == <<page, cand, empty_streak, got_new>>
optVars == <<strategies, si, vi, strategy_found, fetched>>

\* ------------------------------------------------------- scenario A
\* The two strategies of scenario A, as PAGINATION_STRATEGIES defines them.
ScenarioStrategies == << PAGINATION_STRATEGIES[1], PAGINATION_STRATEGIES[5] >>

ListingUrl(i) == absolute_url(MkUrl("", "", i, 0, "", ""))

\* The 20 tiles pageNo serves on page 1 and again on page 2.
TwentyTiles == [i \in 1..20 |-> ListingUrl(i)]

\* The 5 tiles of offset=0: three of the twenty (o) and two further ones.
FiveTiles(o) ==
    << ListingUrl(o[1]), ListingUrl(21), ListingUrl(o[2]), ListingUrl(22),
       ListingUrl(o[3]) >>

\* The ways three of the twenty tiles can come back on offset=0.
Overlaps == { o \in [1..3 -> 1..20] : o[1] < o[2] /\ o[2] < o[3] }

\* Scenario A's storefront: pageNo serves the twenty tiles on every page,
\* offset=0 the five, and a later offset nothing new (or nothing at all).
ScenarioResponses(o, s, v) ==
    IF s = 1 THEN {Body(TwentyTiles)}
    ELSE IF v = 1 THEN {Body(FiveTiles(o))}
    ELSE {None, Body(<<>>), Body(TwentyTiles), Body(FiveTiles(o))}

\* The storefronts of a run: store i lists one product of its own, and a
\* fetch of any of its pages answers nothing, a page without a tile, or a
\* page with the tile of that product.
OneListingEach == [name |-> "stores", overlap |-> <<>>]
StoreResponses(i) ==
    {None, Body(<<>>), Body(<< ListingUrl(((i - 1) % NumListings) + 1) >>)}

\* What the storefront may answer to the request of value index v of
\* strategy index s.
Responses(s, v) ==
    IF site.name = "scenarioA" THEN ScenarioResponses(site.overlap, s, v)
    ELSE IF site.name = "stores" THEN StoreResponses(store)
    ELSE FreeResponses

\* scrape_store_optimized, lines 162-166: nothing tracked, no row.
InitOptimized(list) ==
    /\ prog = "optimized"
    /\ strategies = list
    /\ pc = "strategy"
    /\ si = 1
    /\ vi = 1
    /\ seen = {}
    /\ rows = <<>>
    /\ strategy_found = 0
    /\ new_products = 0
    /\ html_ok = FALSE
    /\ fetched = [s \in 1..Len(list) |-> 0]
    /\ requests = 0
    /\ page = 0 /\ cand = 0 /\ empty_streak = 0 /\ got_new = FALSE
    /\ probe = 0 /\ builder = 0 /\ started = {} /\ max_pages = 0

\* Lines 168-178: the for loop takes the next strategy and its values.
OptStartStrategy ==
    /\ prog = "optimized" /\ pc = "strategy"
    /\ si <= Len(strategies)
    /\ strategy_found' = 0
    /\ vi' = 1
    /\ pc' = IF StrategyValues(strategies[si]) = <<>> THEN "strategy_end" ELSE "page"
    /\ UNCHANGED <<extract, url, call, runVars, prog, site, bkVars, max_pages, strategies, si, seen, rows, new_products,
                   html_ok, fetched, requests, byIdVars>>

\* Lines 180-203: one value of the strategy: fetch, parse, merge, and the
\* decision to stop the strategy or go on to its next value. The step is
\* taken once per distinct result of the fetch and the merge.
OptPage ==
    /\ prog = "optimized" /\ pc = "page"
    /\ \E out \in { [ok |-> res.ok, new |-> NewProducts(parse_products(res), seen)] :
                      res \in Responses(si, vi) } :
        LET values == StrategyValues(strategies[si])
            value == values[vi]
            new == out.new
        IN  /\ html_ok' = out.ok
            /\ fetched' = [fetched EXCEPT ![si] = @ + 1]
            /\ requests' = requests + 1
            /\ seen' = seen \cup { ProductKey(p) : p \in Range(new) }
            /\ rows' = rows \o new
            /\ new_products' = Len(new)
            /\ strategy_found' = strategy_found + Len(new)
            /\ IF StopStrategy(Len(new), value, values) \/ vi = Len(values)
                   THEN pc' = "strategy_end" /\ vi' = vi
                   ELSE pc' = "page" /\ vi' = vi + 1
    /\ UNCHANGED <<extract, url, call, runVars, prog, site, bkVars, max_pages, strategies, si, byIdVars>>

\* The strategy is entered again instead of being left.
OptEndStrategy_Reenter ==
    /\ prog = "optimized" /\ pc = "strategy_end"
    /\ pc' = "strategy"
    /\ UNCHANGED <<extract, url, call, runVars, prog, site, bkVars, max_pages, strategies, si, vi, seen, rows, strategy_found,
                   new_products, html_ok, fetched, requests, byIdVars>>

\* Lines 205-206: the strategy is over; pause, then the next one.
OptEndStrategy ==
    /\ prog = "optimized" /\ pc = "strategy_end"
    /\ si' = si + 1
    /\ pc' = "strategy"
    /\ UNCHANGED <<extract, url, call, runVars, prog, site, bkVars, max_pages, strategies, vi, seen, rows, strategy_found,
                   new_products, html_ok, fetched, requests, byIdVars>>

\* Lines 208-209: every strategy has run; the rows are returned.
OptReturn ==
    /\ prog = "optimized" /\ pc = "strategy"
    /\ si > Len(strategies)
    /\ pc' = "done"
    /\ UNCHANGED <<extract, url, call, runVars, prog, site, bkVars, max_pages, strategies, si, vi, seen, rows, strategy_found,
                   new_products, html_ok, fetched, requests, byIdVars>>

\* scrape_by_store_id, lines 350-354.
InitByStoreId ==
    /\ prog = "by_store_id"
    /\ strategies = <<>>
    /\ pc = "while"
    /\ si = 0 /\ vi = 0 /\ strategy_found = 0
    /\ fetched = <<>>
    /\ seen = {}
    /\ rows = <<>>
    /\ new_products = 0
    /\ html_ok = FALSE
    /\ requests = 0
    /\ page = 1
    /\ cand = 1
    /\ empty_streak = 0
    /\ got_new = FALSE
    /\ probe = 0 /\ builder = 0 /\ started = {} /\ max_pages = 0

\* Lines 355-356: the while test holds; the page step starts.
ByIdPageStart ==
    /\ prog = "by_store_id" /\ pc = "while"
    /\ KeepPaging(page, empty_streak)
    /\ got_new' = FALSE
    /\ cand' = 1
    /\ pc' = IF subpage_candidates(page) = <<>> THEN "page_end" ELSE "candidate"
    /\ UNCHANGED <<extract, url, call, runVars, prog, site, bkVars, max_pages, optVars, seen, rows, new_products, html_ok,
                   requests, page, empty_streak>>

\* A candidate step in which a fetch without a body ends the crawl.
ByIdCandidate_FailedFetchEndsCrawl ==
    /\ prog = "by_store_id" /\ pc = "candidate"
    /\ \E res \in Responses(0, cand) :
        LET new == IF res.ok THEN NewItems(res.tiles, seen) ELSE <<>>
        IN  /\ requests' = requests + 1
            /\ seen' = seen \cup Range(new)
            /\ rows' = rows \o new
            /\ got_new' = (new # <<>>)
            /\ IF ~res.ok
                   THEN pc' = "done" /\ cand' = cand
                   ELSE IF new # <<>> \/ cand = Len(subpage_candidates(page))
                       THEN pc' = "page_end" /\ cand' = cand
                       ELSE pc' = "candidate" /\ cand' = cand + 1
    /\ UNCHANGED <<extract, url, call, runVars, prog, site, bkVars, max_pages, optVars, new_products, html_ok, page, empty_streak>>

\* A candidate step that goes on to the next candidate after a new item.
ByIdCandidate_NoBreak ==
    /\ prog = "by_store_id" /\ pc = "candidate"
    /\ \E new \in { IF res.ok THEN NewItems(res.tiles, seen) ELSE <<>> :
                      res \in Responses(0, cand) } :
            /\ requests' = requests + 1
            /\ seen' = seen \cup Range(new)
            /\ rows' = rows \o new
            /\ got_new' = (got_new \/ new # <<>>)
            /\ IF cand = Len(subpage_candidates(page))
                   THEN pc' = "page_end" /\ cand' = cand
                   ELSE pc' = "candidate" /\ cand' = cand + 1
    /\ UNCHANGED <<extract, url, call, runVars, prog, site, bkVars, max_pages, optVars, new_products, html_ok, page, empty_streak>>

\* Lines 358-379: one candidate URL of the page: fetch it, skip it when it
\* has no body, else merge its batch; a candidate with a new item ends the
\* page step.
ByIdCandidate ==
    /\ prog = "by_store_id" /\ pc = "candidate"
    /\ \E new \in { IF res.ok THEN NewItems(res.tiles, seen) ELSE <<>> :
                      res \in Responses(0, cand) } :
            /\ requests' = requests + 1
            /\ seen' = seen \cup Range(new)
            /\ rows' = rows \o new
            /\ got_new' = (new # <<>>)
            /\ IF new # <<>> \/ cand = Len(subpage_candidates(page))
                   THEN pc' = "page_end" /\ cand' = cand
                   ELSE pc' = "candidate" /\ cand' = cand + 1
    /\ UNCHANGED <<extract, url, call, runVars, prog, site, bkVars, max_pages, optVars, new_products, html_ok, page, empty_streak>>

\* Lines 381-388: the streak is updated and the next page is due.
ByIdPageEnd ==
    /\ prog = "by_store_id" /\ pc = "page_end"
    /\ empty_streak' = NextStreak(empty_streak, got_new)
    /\ page' = page + 1
    /\ pc' = "while"
    /\ UNCHANGED <<extract, url, call, runVars, prog, site, bkVars, max_pages, optVars, seen, rows, new_products, html_ok,
                   requests, cand, got_new>>

\* Lines 390-393: the while test fails; the items are returned.
ByIdReturn ==
    /\ prog = "by_store_id" /\ pc = "while"
    /\ ~KeepPaging(page, empty_streak)
    /\ pc' = "done"
    /\ UNCHANGED <<extract, url, call, runVars, prog, site, bkVars, max_pages, optVars, seen, rows, new_products, html_ok,
                   requests, byIdVars>>

\* ---------------------------------------------------- scrape_store (backup)
bkFrame == <<extract, url, call, runVars, prog, site, strategies, vi, strategy_found, fetched, requests,
             cand, empty_streak, got_new, max_pages>>

\* scrape_store, lines 194-198: no row, nothing seen.
InitBackup ==
    /\ prog = "backup"
    /\ strategies = <<>>
    /\ pc = "page1"
    /\ si = 1
    /\ vi = 0 /\ strategy_found = 0
    /\ fetched = <<>>
    /\ seen = {}
    /\ rows = <<>>
    /\ new_products = 0
    /\ html_ok = FALSE
    /\ requests = 0
    /\ page = 0 /\ cand = 0 /\ empty_streak = 0 /\ got_new = FALSE
    /\ probe = 0 /\ builder = 0 /\ started = {} /\ max_pages = 0

\* Lines 211-231: page 1 of the next sort strategy. Without a body the loop
\* continues with the next strategy; else the page is merged, and only a
\* page with a new item leads to detect_page_builder.
BkPage1 ==
    /\ prog = "backup" /\ pc = "page1"
    /\ si <= Len(sort_strategies)
    /\ started' = started \cup {si}
    /\ \E out \in { [ok |-> res.ok, new |-> NewProducts(parse_store_page(res), seen)] :
                      res \in Responses(si, 1) } :
        /\ html_ok' = out.ok
        /\ seen' = seen \cup Range(out.new)
        /\ rows' = rows \o out.new
        /\ new_products' = Len(out.new)
        /\ IF ~out.ok
               THEN si' = si + 1 /\ pc' = "page1" /\ probe' = probe
               ELSE /\ si' = si
                    /\ IF Len(out.new) > 0
                           THEN pc' = "probe" /\ probe' = 1
                           ELSE pc' = "strategy_end" /\ probe' = probe
    /\ UNCHANGED <<bkFrame, page, builder>>

\* detect_page_builder, lines 160-188: one probe. A probe without a body
\* or without enough new items is followed by the next probe; the first
\* probe that finds returns its builder, the last one None.
BkProbe ==
    /\ prog = "backup" /\ pc = "probe"
    /\ \E out \in { [ok |-> res.ok,
                     new_count |-> Len(ProbeNew(parse_store_page(res), seen))] :
                      res \in Responses(si, probe) } :
        /\ html_ok' = out.ok
        /\ IF out.ok /\ ProbeFinds(probe, out.new_count)
               THEN /\ builder' = probe
                    /\ probe' = probe
                    /\ IF PaginatedPages = <<>>
                           THEN pc' = "strategy_end" /\ page' = page
                           ELSE pc' = "paginate" /\ page' = PaginatedPages[1]
               ELSE /\ builder' = 0
                    /\ page' = page
                    /\ IF probe = NumProbes
                           THEN pc' = "strategy_end" /\ probe' = probe
                           ELSE pc' = "probe" /\ probe' = probe + 1
    /\ UNCHANGED <<bkFrame, si, seen, rows, new_products, started>>

\* Lines 234-250: one page through the builder. No body, or no new item,
\* breaks the page loop; so does the end of the page range.
BkPaginate ==
    /\ prog = "backup" /\ pc = "paginate"
    /\ \E out \in { [ok |-> res.ok, new |-> NewProducts(parse_store_page(res), seen)] :
                      res \in Responses(si, page) } :
        /\ html_ok' = out.ok
        /\ seen' = seen \cup Range(out.new)
        /\ rows' = rows \o out.new
        /\ new_products' = Len(out.new)
        /\ IF ~out.ok \/ Len(out.new) = 0
                  \/ page = PaginatedPages[Len(PaginatedPages)]
               THEN pc' = "strategy_end" /\ page' = page
               ELSE pc' = "paginate" /\ page' = page + 1
    /\ UNCHANGED <<bkFrame, si, probe, builder, started>>

\* Lines 252-253: the pause between strategies, then the next one. The
\* locals of the strategy are not read again before they are assigned.
BkEndStrategy ==
    /\ prog = "backup" /\ pc = "strategy_end"
    /\ si' = si + 1
    /\ pc' = "page1"
    /\ probe' = 0 /\ builder' = 0 /\ page' = 0
    /\ UNCHANGED <<bkFrame, seen, rows, new_products, html_ok, started>>

\* Lines 255-256: every strategy has run; the rows are returned.
BkReturn ==
    /\ prog = "backup" /\ pc = "page1"
    /\ si > Len(sort_strategies)
    /\ pc' = "done"
    /\ UNCHANGED <<bkFrame, si, seen, rows, new_products, html_ok, page, bkVars>>

\* ----------------------------------------------- scrape_category (oraimo)
orFrame == <<extract, url, call, runVars, prog, site, strategies, si, vi, strategy_found, fetched, cand,
             empty_streak, got_new, bkVars>>

\* scrape_category, lines 227-228.
InitOraimo ==
    /\ prog = "oraimo_bq"
    /\ strategies = <<>>
    /\ pc = "first_page"
    /\ si = 0 /\ vi = 0 /\ strategy_found = 0
    /\ fetched = <<>>
    /\ seen = {}
    /\ rows = <<>>
    /\ new_products = 0
    /\ html_ok = FALSE
    /\ requests = 0
    /\ page = 1
    /\ cand = 0 /\ empty_streak = 0 /\ got_new = FALSE
    /\ probe = 0 /\ builder = 0 /\ started = {} /\ max_pages = 0

\* Lines 230-248: page 1. Without a body the function returns at once; else
\* the page sets max_pages and its items are taken.
OrFirstPage ==
    /\ prog = "oraimo_bq" /\ pc = "first_page"
    /\ requests' = requests + 1
    /\ \E res \in Responses(0, 1), total_pages \in TotalPages :
        LET new_items == IF res.ok THEN NewUrls(res.tiles, seen) ELSE <<>>
        IN  /\ html_ok' = res.ok
            /\ rows' = rows \o new_items
            /\ seen' = seen \cup Range(new_items)
            /\ new_products' = Len(new_items)
            /\ IF res.ok
                   THEN /\ max_pages' = Min(total_pages, MAX_PAGES_PER_COLLECTION)
                        /\ page' = 2
                        /\ pc' = "pages"
                   ELSE /\ max_pages' = max_pages
                        /\ page' = page
                        /\ pc' = "done"
    /\ UNCHANGED orFrame

\* Lines 251-273: one of the pages 2..max_pages. No body, no tile or no new
\* item breaks the loop.
OrPage ==
    /\ prog = "oraimo_bq" /\ pc = "pages"
    /\ page <= max_pages
    /\ requests' = requests + 1
    /\ \E out \in { [ok |-> res.ok,
                     new |-> IF res.ok THEN NewUrls(res.tiles, seen) ELSE <<>>] :
                      res \in Responses(0, page) } :
        /\ html_ok' = out.ok
        /\ rows' = rows \o out.new
        /\ seen' = seen \cup Range(out.new)
        /\ new_products' = Len(out.new)
        /\ IF out.new = <<>>
               THEN pc' = "return" /\ page' = page
               ELSE pc' = "pages" /\ page' = page + 1
    /\ UNCHANGED <<orFrame, max_pages>>

\* Line 275: the loop is over or was broken; the items are returned.
OrReturn ==
    /\ prog = "oraimo_bq"
    /\ pc = "return" \/ (pc = "pages" /\ page > max_pages)
    /\ pc' = "done"
    /\ UNCHANGED <<orFrame, seen, rows, new_products, html_ok, requests, page,
                   max_pages>>

Free == [name |-> "free", overlap |-> <<>>]

\* No body is being taken apart on its own.
NoExtract == [body |-> <<>>, html |-> <<>>, tiles |-> <<>>, step |-> "none"]

\* No URL text is being canonicalised on its own.
NoUrl == [given |-> <<>>, once |-> <<>>, twice |-> <<>>, applied |-> 0]

\* The crawl steps take a call of fetch as a whole: no call is followed
\* through its attempts.
NoCall == [http |-> <<>>, sleeps |-> 0, result |-> "no call"]

\* No run() is in progress: the crawl function is called on its own.
NoRun ==
    /\ call = NoCall
    /\ url = NoUrl
    /\ extract = NoExtract
    /\ store = 0
    /\ everything = <<>>
    /\ returned = <<>>
    /\ writes = <<>>

Init ==
    /\ site = Free
    /\ NoRun
    /\ \/ InitOptimized(PAGINATION_STRATEGIES)
       \/ InitByStoreId
       \/ InitBackup
       \/ InitOraimo

NextOptimized ==
    \/ OptStartStrategy
    \/ OptPage
    \/ OptEndStrategy
    \/ OptReturn

NextByStoreId ==
    \/ ByIdPageStart
    \/ ByIdCandidate
    \/ ByIdPageEnd
    \/ ByIdReturn

NextBackup ==
    \/ BkPage1
    \/ BkProbe
    \/ BkPaginate
    \/ BkEndStrategy
    \/ BkReturn

NextOraimo ==
    \/ OrFirstPage
    \/ OrPage
    \/ OrReturn

Next ==
    \/ NextOptimized
    \/ NextByStoreId
    \/ NextBackup
    \/ NextOraimo

Spec == Init /\ [][Next]_vars

\* The storefront crawls of kilimall_scraper.py and
\* kilimall_scraper_optimized.py.
InitCrawl ==
    /\ site = Free
    /\ NoRun
    /\ \/ InitOptimized(PAGINATION_STRATEGIES)
       \/ InitByStoreId

NextCrawl ==
    \/ NextOptimized
    \/ NextByStoreId

\* The crawl is one thread of control which runs until it returns: a step
\* that can be taken is taken.
FairSpec == InitCrawl /\ [][NextCrawl]_vars /\ WF_vars(NextCrawl)

\* Scenario A: scrape_store_optimized with the two strategies pageNo and
\* offset against the scripted storefront.
InitScenarioA ==
    /\ site \in { [name |-> "scenarioA", overlap |-> o] : o \in Overlaps }
    /\ NoRun
    /\ InitOptimized(ScenarioStrategies)

SpecScenarioA == InitScenarioA /\ [][NextOptimized]_vars

\* ------------------------------------------------------------------ run()
\* Entries of STORES (kilimall) or CATEGORY_SLUGS (oraimo) that run() visits.
NumStores == 2

\* The call of scrape_store_optimized for the next store: its locals are new.
CallOptimized ==
    /\ strategies' = PAGINATION_STRATEGIES
    /\ pc' = "strategy"
    /\ si' = 1 /\ vi' = 1
    /\ seen' = {} /\ rows' = <<>>
    /\ strategy_found' = 0 /\ new_products' = 0 /\ html_ok' = FALSE
    /\ fetched' = [s \in 1..Len(PAGINATION_STRATEGIES) |-> 0]
    /\ requests' = 0
    /\ UNCHANGED <<byIdVars, bkVars, max_pages>>

\* The call of scrape_by_store_id for the next store.
CallByStoreId ==
    /\ pc' = "while"
    /\ seen' = {} /\ rows' = <<>>
    /\ requests' = 0
    /\ page' = 1 /\ cand' = 1 /\ empty_streak' = 0 /\ got_new' = FALSE
    /\ UNCHANGED <<optVars, bkVars, max_pages, new_products, html_ok>>

\* The call of scrape_category for the next slug.
CallOraimo ==
    /\ pc' = "first_page"
    /\ seen' = {} /\ rows' = <<>>
    /\ new_products' = 0 /\ html_ok' = FALSE
    /\ requests' = 0
    /\ page' = 1 /\ max_pages' = 0
    /\ UNCHANGED <<optVars, bkVars, cand, empty_streak, got_new>>

\* scrape_category returned at once because page 1 had no body
\* (oraimo_scrapper_bq.py lines 232-235): page 2 was never due.
FirstPageFailed == prog = "oraimo_bq" /\ page = 1

\* A loop that ends at the first store whose crawl returned nothing.
LoopGoesOn_UntilEmptyStore(s) == s < NumStores /\ rows # <<>>
\* for entry in STORES / for slug in CATEGORY_SLUGS: an entry follows entry s.
LoopGoesOn(s) == s < NumStores

\* run(): the crawl of the current store returned; its items are added to
\* everything and the loop goes to the next store, or is over
\* (kilimall_scraper.py 403-411, kilimall_scraper_optimized.py 215-218,
\* oraimo_scrapper_bq.py 350-352).
RunNextStore ==
    /\ store \in 1..NumStores /\ pc = "done"
    /\ everything' = everything \o rows
    /\ returned' = Append(returned, [items |-> rows, failed |-> FirstPageFailed])
    /\ store' = store + 1
    /\ IF LoopGoesOn(store)
           THEN \/ prog = "optimized" /\ CallOptimized
                \/ prog = "by_store_id" /\ CallByStoreId
                \/ prog = "oraimo_bq" /\ CallOraimo
           ELSE /\ pc' = "collected"
                /\ UNCHANGED <<strategies, si, vi, seen, rows, strategy_found,
                               new_products, html_ok, fetched, requests, page,
                               cand, empty_streak, got_new, bkVars, max_pages>>
    /\ UNCHANGED <<extract, url, call, prog, site, writes>>

\* One call on the sink, as the log keeps it.
SinkCall(op, arg, ok) == [op |-> op, rows |-> arg, ok |-> ok]

\* run() after the loop: kilimall_scraper_optimized.py returns when there is
\* no row (223-224) and oraimo_scrapper_bq.py skips the upload (377-381);
\* kilimall_scraper.py goes on whatever the rows are. Then the client and
\* the worksheet are obtained, which can raise, and the sink function
\* (append_rows, bq_append_rows) is called with all the rows.
RunSink ==
    /\ pc = "collected"
    /\ IF prog \in {"optimized", "oraimo_bq"} /\ everything = <<>>
           THEN pc' = "exit" /\ writes' = writes
           ELSE \E opened \in BOOLEAN :
                    IF opened
                        THEN /\ pc' = "append_rows"
                             /\ writes' = Append(writes, SinkCall("sink", everything, TRUE))
                        ELSE pc' = "raised" /\ writes' = writes
    /\ UNCHANGED <<extract, url, call, prog, site, strategies, si, vi, seen, rows, strategy_found,
                   new_products, html_ok, fetched, requests, page, cand,
                   empty_streak, got_new, bkVars, max_pages, store, everything,
                   returned>>

\* What follows a batch write that raised: append_rows of the kilimall
\* scrapers catches it and writes row by row; bq_append_rows lets it pass.
AfterBatchFailure_Fatal(p) == "raised"
AfterBatchFailure(p) == IF p = "oraimo_bq" THEN "raised" ELSE "fallback"

\* append_rows (kilimall_scraper.py 124-131, kilimall_scraper_optimized.py
\* 70-76), bq_append_rows (oraimo_scrapper_bq.py 317-337): nothing is written
\* when there is no row; else all rows go out in one batch call.
SinkBatch ==
    /\ pc = "append_rows"
    /\ IF everything = <<>>
           THEN pc' = "exit" /\ writes' = writes
           ELSE \E ok \in BOOLEAN :
                    /\ writes' = Append(writes, SinkCall("batch", everything, ok))
                    /\ pc' = IF ok THEN "exit" ELSE AfterBatchFailure(prog)
    /\ UNCHANGED <<extract, url, call, prog, site, strategies, si, vi, seen, rows, strategy_found,
                   new_products, html_ok, fetched, requests, page, cand,
                   empty_streak, got_new, bkVars, max_pages, store, everything,
                   returned>>

\* The rows the fallback loop of append_rows has handed to ws.append_row.
RowsTried == Len(SelectSeq(writes, LAMBDA w : w.op = "row"))

\* The except branch of append_rows: the rows are written one by one; a
\* write that raises ends append_rows and run() with the exception.
SinkRow ==
    /\ pc = "fallback"
    /\ IF RowsTried = Len(everything)
           THEN pc' = "exit" /\ writes' = writes
           ELSE \E ok \in BOOLEAN :
                    /\ writes' = Append(writes,
                                   SinkCall("row", <<everything[RowsTried + 1]>>, ok))
                    /\ pc' = IF ok THEN "fallback" ELSE "raised"
    /\ UNCHANGED <<extract, url, call, prog, site, strategies, si, vi, seen, rows, strategy_found,
                   new_products, html_ok, fetched, requests, page, cand,
                   empty_streak, got_new, bkVars, max_pages, store, everything,
                   returned>>

\* run() of kilimall_scraper_optimized.py, kilimall_scraper.py and
\* oraimo_scrapper_bq.py, with the crawl of the first store called; every
\* store lists one product.
InitRun ==
    /\ site = OneListingEach
    /\ call = NoCall
    /\ url = NoUrl
    /\ extract = NoExtract
    /\ store = 1
    /\ everything = <<>>
    /\ returned = <<>>
    /\ writes = <<>>
    /\ \/ InitOptimized(PAGINATION_STRATEGIES)
       \/ InitByStoreId
       \/ InitOraimo

NextRun ==
    \/ NextOptimized
    \/ NextByStoreId
    \/ NextOraimo
    \/ RunNextStore
    \/ RunSink
    \/ SinkBatch
    \/ SinkRow

SpecRun == InitRun /\ [][NextRun]_vars

\* ----------------------------------------------------------------- fetch
\* RETRY_COUNT of the scrapers.
RETRY_COUNT == 3

\* What requests.get can come back with: a response with its status code
\* and Content-Type header ("" when the header is missing), or an exception
\* of requests (a timeout, a connection error).
Response(status, ctype) == [kind |-> "response", status |-> status, ctype |-> ctype]
Raised(ex) == [kind |-> ex, status |-> 0, ctype |-> ""]
Statuses == {200, 204, 304, 403, 429, 500, 503}
ContentTypes == {"text/html; charset=utf-8", "application/json", ""}
HttpOutcomes ==
    { Response(s, c) : s \in Statuses, c \in ContentTypes }
        \cup { Raised("timeout"), Raised("connection error") }

\* "text/html" in ctype
ContainsTextHtml(ctype) == ctype = "text/html; charset=utf-8"

\* The programs whose fetch is followed: kilimall_scraper.py,
\* kilimall_scraper_optimized.py, kilimall_scraper_backup.py, and
\* oraimo_scrapper_bq.py, whose fetch is the one of oraimo_scraper.py.
FetchProgs == {"by_store_id", "optimized", "backup", "oraimo_bq"}

\* A fetch that takes every 2xx status for a success.
Accepts_Any2xx(p, r) ==
    /\ r.kind = "response"
    /\ r.status \in 200..299
    /\ p \in {"backup", "oraimo_bq"} => ContainsTextHtml(r.ctype)
\* The response makes fetch return its text: status 200, and in
\* kilimall_scraper_backup.py and the oraimo scrapers an HTML content type.
Accepts(p, r) ==
    /\ r.kind = "response"
    /\ r.status = 200
    /\ p \in {"backup", "oraimo_bq"} => ContainsTextHtml(r.ctype)

\* A fetch that goes on after a client error.
ClientError_Retried(r) == FALSE
\* 400 <= status < 500: fetch returns without a body at once.
ClientError(r) == r.kind = "response" /\ 400 <= r.status /\ r.status < 500

\* sleep_politely() after failed attempt number n: always, but in
\* kilimall_scraper_optimized.py not after the last attempt.
SleepsAfter(p, n) == p = "optimized" => n < RETRY_COUNT

\* fetch is called: no request was made yet.
InitFetch ==
    /\ site = Free
    /\ prog \in FetchProgs
    /\ pc = "attempt"
    /\ call = [http |-> <<>>, sleeps |-> 0, result |-> "pending"]
    /\ url = NoUrl
    /\ extract = NoExtract
    /\ store = 0 /\ everything = <<>> /\ returned = <<>> /\ writes = <<>>
    /\ strategies = <<>> /\ si = 0 /\ vi = 0 /\ strategy_found = 0
    /\ fetched = <<>> /\ seen = {} /\ rows = <<>> /\ new_products = 0
    /\ html_ok = FALSE /\ requests = 0
    /\ page = 0 /\ cand = 0 /\ empty_streak = 0 /\ got_new = FALSE
    /\ probe = 0 /\ builder = 0 /\ started = {} /\ max_pages = 0

fetchFrame == <<extract, url, prog, site, strategies, si, vi, seen, rows, strategy_found,
                new_products, html_ok, fetched, requests, page, cand,
                empty_streak, got_new, bkVars, max_pages, runVars>>

\* One turn of the for loop of fetch: the request, and what its outcome
\* leads to: the text is returned, or nothing is returned (client error),
\* or the attempt is logged and the loop goes on after the sleep.
FetchAttempt ==
    /\ pc = "attempt"
    /\ Len(call.http) < RETRY_COUNT
    /\ \E r \in HttpOutcomes :
        LET n == Len(call.http) + 1
        IN  IF Accepts(prog, r)
                THEN /\ call' = [call EXCEPT !.http = Append(@, r), !.result = "body"]
                     /\ pc' = "returned"
            ELSE IF ClientError(r)
                THEN /\ call' = [call EXCEPT !.http = Append(@, r), !.result = "none"]
                     /\ pc' = "returned"
            ELSE /\ call' = [call EXCEPT !.http = Append(@, r),
                                         !.sleeps = IF SleepsAfter(prog, n) THEN @ + 1 ELSE @]
                 /\ pc' = "attempt"
    /\ UNCHANGED fetchFrame

\* The for loop is over: fetch returns None ("" in
\* kilimall_scraper_optimized.py).
FetchGiveUp ==
    /\ pc = "attempt"
    /\ Len(call.http) = RETRY_COUNT
    /\ call' = [call EXCEPT !.result = "none"]
    /\ pc' = "returned"
    /\ UNCHANGED fetchFrame

NextFetch ==
    \/ FetchAttempt
    \/ FetchGiveUp

SpecFetch == InitFetch /\ [][NextFetch]_vars

\* ------------------------------------------------ URL texts (urllib.parse)
\* Characters a path is written with: the slash, the semicolon, and x for
\* any run of other characters.
PathChars == {"/", ";", "x"}
\* Longest path text.
MaxPathLen == 4

\* A URL as text: scheme (before ":"), host (after "//"), the text of the
\* path with its parameters, the query (after "?") and the fragment (after
\* "#"); "" for a part that is not written.
UrlText(scheme, host, path, query, fragment) ==
    [scheme |-> scheme, host |-> host, path |-> path, query |-> query,
     fragment |-> fragment]

\* The path text can follow the host, or stand without one: after a host
\* it is empty or begins with a slash, and without a host it does not begin
\* with two slashes (they would announce a host).
PathFits(h, p) ==
    IF h # "" THEN p = <<>> \/ Head(p) = "/"
    ELSE ~(Len(p) >= 2 /\ p[1] = "/" /\ p[2] = "/")

UrlTexts ==
    { u \in { UrlText(s, h, p, q, f) :
                s \in {"", "http", "https"},
                h \in {"", KilimallHost, "m.kilimall.co.ke"},
                p \in SeqsUpTo(PathChars, MaxPathLen),
                q \in {"", "from=store"},
                f \in {"", "reviews"} } :
        PathFits(u.host, u.path) }

\* Index of the last slash of the text, 0 when it has none (str.rfind).
RECURSIVE LastSlash(_)
LastSlash(t) ==
    IF t = <<>> THEN 0
    ELSE IF t[Len(t)] = "/" THEN Len(t)
    ELSE LastSlash(SubSeq(t, 1, Len(t) - 1))

\* Index of the first semicolon at or after position i, 0 when there is none
\* (str.find).
RECURSIVE FirstSemicolon(_, _)
FirstSemicolon(t, i) ==
    IF i > Len(t) THEN 0
    ELSE IF i >= 1 /\ t[i] = ";" THEN i
    ELSE FirstSemicolon(t, i + 1)

\* urllib.parse._splitparams: the parameters are what follows the first
\* semicolon of the last path segment; the path is what precedes it.
SplitParams(t) ==
    LET i == FirstSemicolon(t, LastSlash(t) + 1)
    IN  IF i = 0 THEN [path |-> t, params |-> <<>>]
        ELSE [path |-> SubSeq(t, 1, i - 1), params |-> SubSeq(t, i + 1, Len(t))]

\* The number of slashes the text ends with.
RECURSIVE TrailingSlashes(_)
TrailingSlashes(t) ==
    IF t = <<>> \/ t[Len(t)] # "/" THEN 0
    ELSE 1 + TrailingSlashes(SubSeq(t, 1, Len(t) - 1))

\* str.rstrip("/")
RStripSlashes(t) == SubSeq(t, 1, Len(t) - TrailingSlashes(t))

\* urlparse(url), as canonical_product_url reads it: scheme, host, the path
\* without its parameters, as its text before the trailing slashes and
\* their number, query and fragment.
urlparse(u) ==
    LET path == SplitParams(u.path).path
    IN  MkUrl(u.scheme, u.host, RStripSlashes(path), TrailingSlashes(path),
              u.query, u.fragment)

\* n slashes.
Slashes(n) == [i \in 1..n |-> "/"]

\* urlunparse of a parsed URL without parameters: after a host a path that
\* does not begin with a slash is given one.
urlunparse(p) ==
    LET path == p.path \o Slashes(p.slashes)
    IN  UrlText(p.scheme, p.host,
                IF p.host # "" /\ path # <<>> /\ Head(path) # "/"
                    THEN <<"/">> \o path ELSE path,
                p.query, p.fragment)

\* canonical_product_url(url) on the text of a URL.
CanonicalText(u) == urlunparse(canonical_product_url(urlparse(u)))

\* canonical_product_url is given a URL text.
InitCanon ==
    /\ site = Free
    /\ prog = "canonical_product_url"
    /\ pc = "given"
    /\ url \in { [given |-> u, once |-> <<>>, twice |-> <<>>, applied |-> 0] :
                   u \in UrlTexts }
    /\ call = NoCall
    /\ extract = NoExtract
    /\ store = 0 /\ everything = <<>> /\ returned = <<>> /\ writes = <<>>
    /\ strategies = <<>> /\ si = 0 /\ vi = 0 /\ strategy_found = 0
    /\ fetched = <<>> /\ seen = {} /\ rows = <<>> /\ new_products = 0
    /\ html_ok = FALSE /\ requests = 0
    /\ page = 0 /\ cand = 0 /\ empty_streak = 0 /\ got_new = FALSE
    /\ probe = 0 /\ builder = 0 /\ started = {} /\ max_pages = 0

canonFrame == <<extract, call, prog, site, strategies, si, vi, seen, rows, strategy_found,
                new_products, html_ok, fetched, requests, page, cand,
                empty_streak, got_new, bkVars, max_pages, runVars>>

\* The function is applied to the text given.
Canonicalise ==
    /\ prog = "canonical_product_url" /\ pc = "given"
    /\ url' = [url EXCEPT !.once = CanonicalText(url.given), !.applied = 1]
    /\ pc' = "canonical"
    /\ UNCHANGED canonFrame

\* The function is applied to its own result.
CanonicaliseAgain ==
    /\ prog = "canonical_product_url" /\ pc = "canonical"
    /\ url' = [url EXCEPT !.twice = CanonicalText(url.once), !.applied = 2]
    /\ pc' = "again"
    /\ UNCHANGED canonFrame

NextCanon ==
    \/ Canonicalise
    \/ CanonicaliseAgain

SpecCanon == InitCanon /\ [][NextCanon]_vars

\* ------------------------------------- bodies, JSON envelopes and tiles
\* Longest markup of one HTML text, in elements.
MaxMarkup == 2

\* The elements HTML text is made of: a product anchor
\* (<a href="/listing/i" title=...>), a run of other text, a run of
\* whitespace.
Anchor(href) == [tag |-> "a", href |-> href]
TextRun(t) == [tag |-> "", href |-> t]
Elements == {Anchor("/listing/1"), Anchor("/listing/2"), TextRun("text"), TextRun(" ")}

\* HTML texts; the empty text is the empty string.
HtmlTexts == SeqsUpTo(Elements, MaxMarkup)

\* v.strip() is empty: the text is nothing but whitespace.
Blank(h) == \A i \in 1..Len(h) : h[i] = TextRun(" ")

\* The values of a JSON object: a string holding a text, or a value that
\* is no string (a number, null, an object, a list).
StringValue(h) == [type |-> "string", text |-> h]
OtherValue == [type |-> "other", text |-> <<>>]
JsonValues == { StringValue(h) : h \in HtmlTexts } \cup {OtherValue}

\* The field names decode_html_from_json looks for, in its order, and a
\* name it does not look for.
HtmlKeys == <<"html", "data", "content", "body">>
JsonKeys == Range(HtmlKeys) \cup {"result"}

Field(k, v) == [key |-> k, value |-> v]

\* JSON objects of up to two fields, of different names.
JsonObjects ==
    { <<>> }
        \cup { << Field(k, v) >> : k \in JsonKeys, v \in JsonValues }
        \cup { o \in { << Field(k1, v1), Field(k2, v2) >> :
                         k1 \in JsonKeys, v1 \in JsonValues,
                         k2 \in JsonKeys, v2 \in JsonValues } :
                   o[1].key # o[2].key }

\* A body: HTML text, the text of a JSON object, or text that is neither
\* and holds no tag, beginning with a brace or not.
HtmlBody(h) == [kind |-> "html", markup |-> h, fields |-> <<>>, brace |-> FALSE]
JsonBody(o) == [kind |-> "json", markup |-> <<>>, fields |-> o, brace |-> TRUE]
Garbage(brace) == [kind |-> "garbage", markup |-> <<>>, fields |-> <<>>, brace |-> brace]
Bodies ==
    { HtmlBody(h) : h \in HtmlTexts }
        \cup { JsonBody(o) : o \in JsonObjects }
        \cup { Garbage(b) : b \in BOOLEAN }

\* obj.get(k): the value of field k, None (no string) when there is none.
Get(o, k) ==
    IF \E i \in 1..Len(o) : o[i].key = k
        THEN o[CHOOSE i \in 1..Len(o) : o[i].key = k].value
        ELSE OtherValue

\* A value that counts for any string, blank or not.
Usable_AnyString(v) == v.type = "string"
\* isinstance(v, str) and v.strip()
Usable(v) == v.type = "string" /\ ~Blank(v.text)

\* The loop over ("html", "data", "content", "body"): the first of the keys
\* whose value is a non-blank string, "" when no key has one.
RECURSIVE FirstUsableKey(_, _)
FirstUsableKey(o, keys) ==
    IF keys = <<>> THEN ""
    ELSE IF Usable(Get(o, Head(keys))) THEN Head(keys)
    ELSE FirstUsableKey(o, Tail(keys))

decode_html_from_json_EmptyWhenNothingFound(s) ==
    IF s.brace /\ s.kind = "json" /\ FirstUsableKey(s.fields, HtmlKeys) # ""
        THEN HtmlBody(Get(s.fields, FirstUsableKey(s.fields, HtmlKeys)).text)
        ELSE HtmlBody(<<>>)
\* decode_html_from_json(s): a text that begins with a brace and is the
\* text of a JSON object gives the string of its first usable field; any
\* other text, a JSON object without such a field and a text json.loads
\* raises on give s itself.
decode_html_from_json(s) ==
    IF s.brace /\ s.kind = "json" /\ FirstUsableKey(s.fields, HtmlKeys) # ""
        THEN HtmlBody(Get(s.fields, FirstUsableKey(s.fields, HtmlKeys)).text)
        ELSE s

\* A tile: the href of its anchor, as the HTML parser reads it; inside
\* the text of a JSON string the quotes of the attribute are written \",
\* and the parser reads the backslashes and quotes into the href.
Tile(href, escaped) == [href |-> href, escaped |-> escaped]

\* The hrefs of the anchors of h, in order.
AnchorsOf(h, escaped) ==
    LET anchors == SelectSeq(h, LAMBDA e : e.tag = "a")
    IN  [i \in 1..Len(anchors) |-> Tile(anchors[i].href, escaped)]

\* The anchors in the text of a JSON object: those of its strings.
RECURSIVE AnchorsInJson(_)
AnchorsInJson(o) ==
    IF o = <<>> THEN <<>>
    ELSE (IF Head(o).value.type = "string"
              THEN AnchorsOf(Head(o).value.text, TRUE) ELSE <<>>)
             \o AnchorsInJson(Tail(o))

\* seen_hrefs: an href gives one tile, the first.
RECURSIVE FirstOfEachHref(_, _)
FirstOfEachHref(tiles, seen_hrefs) ==
    IF tiles = <<>> THEN <<>>
    ELSE IF Head(tiles) \in seen_hrefs THEN FirstOfEachHref(Tail(tiles), seen_hrefs)
    ELSE <<Head(tiles)>> \o FirstOfEachHref(Tail(tiles), seen_hrefs \cup {Head(tiles)})

\* parse_product_tiles(html): whatever the text is, it is read as HTML, and
\* every product anchor found in it gives a tile.
parse_product_tiles(s) ==
    FirstOfEachHref(IF s.kind = "html" THEN AnchorsOf(s.markup, FALSE)
                    ELSE IF s.kind = "json" THEN AnchorsInJson(s.fields)
                    ELSE <<>>,
                    {})

\* A body is given to the tile extraction (kilimall_scraper.py 362-363).
InitExtract ==
    /\ site = Free
    /\ prog = "tile_extraction"
    /\ pc = "body"
    /\ extract \in { [body |-> b, html |-> <<>>, tiles |-> <<>>, step |-> "given"] :
                       b \in Bodies }
    /\ url = NoUrl
    /\ call = NoCall
    /\ store = 0 /\ everything = <<>> /\ returned = <<>> /\ writes = <<>>
    /\ strategies = <<>> /\ si = 0 /\ vi = 0 /\ strategy_found = 0
    /\ fetched = <<>> /\ seen = {} /\ rows = <<>> /\ new_products = 0
    /\ html_ok = FALSE /\ requests = 0
    /\ page = 0 /\ cand = 0 /\ empty_streak = 0 /\ got_new = FALSE
    /\ probe = 0 /\ builder = 0 /\ started = {} /\ max_pages = 0

extractFrame == <<url, call, prog, site, strategies, si, vi, seen, rows,
                  strategy_found, new_products, html_ok, fetched, requests,
                  page, cand, empty_streak, got_new, bkVars, max_pages, runVars>>

\* html = decode_html_from_json(body)
Decode ==
    /\ prog = "tile_extraction" /\ pc = "body"
    /\ extract' = [extract EXCEPT !.html = decode_html_from_json(extract.body),
                                  !.step = "decoded"]
    /\ pc' = "html"
    /\ UNCHANGED extractFrame

\* batch = parse_product_tiles(html)
ParseTiles ==
    /\ prog = "tile_extraction" /\ pc = "html"
    /\ extract' = [extract EXCEPT !.tiles = parse_product_tiles(extract.html),
                                  !.step = "parsed"]
    /\ pc' = "batch"
    /\ UNCHANGED extractFrame

NextExtract ==
    \/ Decode
    \/ ParseTiles

SpecExtract == InitExtract /\ [][NextExtract]_vars

\* ------------------------------------------ one tile: title, price, id
\* The texts of a tile are sequences of words; get_text(" ", strip=True)
\* joins the words of an element and of what it encloses with one space.
\* Most texts of one tile that are not empty.
MaxFilled == 2

Words == {"Widget X", "Gadget", "ab", "KSh 1,200", "(12)"}

\* PRICE_RE: KSh and a number
PRICE_RE(w) == w = "KSh 1,200"
\* RATING_TAIL_RE: a number in parentheses
RATING_RE(w) == w = "(12)"
\* [c for c in w if c.isalpha()]
Alphabetic(w) ==
    CASE w = "Widget X" -> 7
      [] w = "Gadget" -> 6
      [] w = "ab" -> 2
      [] w = "KSh 1,200" -> 3
      [] OTHER -> 0
\* len(w)
Chars(w) ==
    CASE w = "Widget X" -> 8
      [] w = "Gadget" -> 6
      [] w = "ab" -> 2
      [] w = "KSh 1,200" -> 9
      [] OTHER -> 4
\* The order of the first characters: ( G K W a
FirstChar(w) ==
    CASE w = "(12)" -> 1
      [] w = "Gadget" -> 2
      [] w = "KSh 1,200" -> 3
      [] w = "Widget X" -> 4
      [] OTHER -> 5

\* Texts found on a tile.
TileTexts ==
    { << "Widget X", "(12)" >>, << "Gadget" >>, << "KSh 1,200" >>, << "ab" >>,
      << "ab", "KSh 1,200", "ab" >> }

\* The places of a tile that hold a text: attributes of the anchor, the
\* text inside it, alt and title of the image inside it, and the own text
\* of the parent of the anchor, of another child of the parent, of the
\* grandparent and of another child of the grandparent.
AnchorTexts == {"title", "aria-label", "inner", "alt", "img-title", "data-name"}
Nearby == {"parent", "sibling", "grandparent", "uncle"}
Places == AnchorTexts \cup Nearby

\* href="/listing/1001", "/listing/widget", "/item/1001"
TileHref(dir, digits) == [dir |-> dir, digits |-> digits]
TileHrefs == { TileHref("listing", "1001"), TileHref("listing", ""), TileHref("item", "1001") }

\* A tile: the places F hold the texts t, the elements c near the anchor
\* have a class like product-title.
TileDom(h, F, t, c) ==
    [href |-> h,
     text |-> [p \in Places |-> IF p \in F THEN t[p] ELSE <<>>],
     titled |-> c]

\* el.get_text(" ", strip=True): own text, then the enclosed elements in
\* the order of the document.
get_text(dom, el) ==
    CASE el = "a" -> dom.text["inner"]
      [] el = "sibling" -> dom.text["sibling"]
      [] el = "uncle" -> dom.text["uncle"]
      [] el = "parent" ->
            dom.text["parent"] \o dom.text["inner"] \o dom.text["sibling"]
      [] el = "grandparent" ->
            dom.text["grandparent"] \o dom.text["parent"] \o dom.text["inner"]
                \o dom.text["sibling"] \o dom.text["uncle"]

select_NodeToo(dom, node) ==
    CASE node = "a" -> {}
      [] node = "parent" -> {"parent", "sibling"} \cap dom.titled
      [] node = "grandparent" ->
            {"grandparent", "parent", "sibling", "uncle"} \cap dom.titled
\* node.select(sel) for sel in TITLE_CANDIDATE_SELECTORS: the elements
\* inside node that have a title-like class; node itself is not among them.
select(dom, node) ==
    CASE node = "a" -> {}
      [] node = "parent" -> {"sibling"} \cap dom.titled
      [] node = "grandparent" -> {"parent", "sibling", "uncle"} \cap dom.titled

\* clean_title(title): the prices go, then a rating at the end goes.
clean_title(title) ==
    LET noprice == SelectSeq(title, LAMBDA w : ~PRICE_RE(w))
    IN  IF noprice # <<>> /\ RATING_RE(noprice[Len(noprice)])
            THEN SubSeq(noprice, 1, Len(noprice) - 1)
            ELSE noprice

RECURSIVE CountAlpha(_)
CountAlpha(txt) == IF txt = <<>> THEN 0 ELSE Alphabetic(Head(txt)) + CountAlpha(Tail(txt))

\* ok(txt) accepts a text with fewer than two letters left.
ok_TwoLetters(txt) ==
    LET t == clean_title(txt)
    IN  IF t = <<>> \/ (\E i \in 1..Len(t) : PRICE_RE(t[i])) \/ CountAlpha(t) < 2
            THEN <<>> ELSE t
\* ok(txt): the cleaned text, "" when it is empty, holds a price or has
\* fewer than 3 letters.
ok(txt) ==
    LET t == clean_title(txt)
    IN  IF t = <<>> \/ (\E i \in 1..Len(t) : PRICE_RE(t[i])) \/ CountAlpha(t) < 3
            THEN <<>> ELSE t

\* len(s): the words and the spaces between them.
RECURSIVE len(_)
len(s) == IF s = <<>> THEN 0
          ELSE Chars(Head(s)) + (IF Len(s) > 1 THEN 1 ELSE 0) + len(Tail(s))

\* s < t for two strings of the same length.
RECURSIVE StrLess(_, _)
StrLess(s, t) ==
    IF s = <<>> \/ t = <<>> THEN s = <<>> /\ t # <<>>
    ELSE IF Head(s) = Head(t) THEN StrLess(Tail(s), Tail(t))
    ELSE FirstChar(Head(s)) < FirstChar(Head(t))

\* cands.sort(key=lambda s: (-len(s), s)); cands[0]
Longest(cands) ==
    CHOOSE s \in cands : \A t \in cands \ {s} :
        len(s) > len(t) \/ (len(s) = len(t) /\ StrLess(s, t))

\* The first of the texts that ok() accepts, "" when it accepts none.
RECURSIVE FirstOk(_)
FirstOk(texts) ==
    IF texts = <<>> THEN <<>>
    ELSE IF ok(Head(texts)) # <<>> THEN ok(Head(texts))
    ELSE FirstOk(Tail(texts))

\* Stage 4: the candidates inside the anchor, else inside its parent, else
\* inside its grandparent.
RECURSIVE Nearest(_, _)
Nearest(dom, nodes) ==
    IF nodes = <<>> THEN <<>>
    ELSE LET cands == { ok(get_text(dom, el)) : el \in select(dom, Head(nodes)) } \ { <<>> }
         IN  IF cands # {} THEN Longest(cands) ELSE Nearest(dom, Tail(nodes))

\* best_title_for_anchor(a)
best_title_for_anchor(dom) ==
    LET direct == FirstOk(<< dom.text["title"], dom.text["aria-label"] >>)
        inner == ok(get_text(dom, "a"))
        img == ok(IF dom.text["alt"] # <<>> THEN dom.text["alt"] ELSE dom.text["img-title"])
        near == Nearest(dom, << "a", "parent", "grandparent" >>)
        data == FirstOk(<< dom.text["title"], dom.text["aria-label"], dom.text["data-name"] >>)
    IN  IF direct # <<>> THEN direct
        ELSE IF inner # <<>> THEN inner
        ELSE IF img # <<>> THEN img
        ELSE IF near # <<>> THEN near
        ELSE data

\* The price: the first match of PRICE_RE in the text of the anchor, else
\* of its parent, and so on upwards.
RECURSIVE NearestPrice(_, _)
NearestPrice(dom, nodes) ==
    IF nodes = <<>> THEN <<>>
    ELSE LET text == get_text(dom, Head(nodes))
             prices == SelectSeq(text, PRICE_RE)
         IN  IF prices # <<>> THEN << Head(prices) >> ELSE NearestPrice(dom, Tail(nodes))

\* urljoin(BASE_URL, href) for the href of a tile.
TileUrl(href) == absolute_url(MkUrl("", "", href, 0, "", ""))

\* extract_listing_id(url): the digits after /listing/ in the path, ""
\* without them.
extract_listing_id(full_url) ==
    IF full_url.path.dir = "listing" THEN full_url.path.digits ELSE ""

\* One anchor that parse_product_tiles turns into a record: at most
\* MaxFilled of its places hold a text.
InitTile ==
    /\ site = Free
    /\ prog = "tile"
    /\ pc = "anchor"
    /\ \E F \in { G \in SUBSET Places : Cardinality(G) <= MaxFilled } :
         \E h \in TileHrefs, t \in [F -> TileTexts],
            c \in SUBSET ({"parent"} \cup (F \cap Nearby)) :
             extract = [dom |-> TileDom(h, F, t, c), title |-> <<>>, out |-> <<>>,
                        step |-> "anchor"]
    /\ url = NoUrl
    /\ call = NoCall
    /\ store = 0 /\ everything = <<>> /\ returned = <<>> /\ writes = <<>>
    /\ strategies = <<>> /\ si = 0 /\ vi = 0 /\ strategy_found = 0
    /\ fetched = <<>> /\ seen = {} /\ rows = <<>> /\ new_products = 0
    /\ html_ok = FALSE /\ requests = 0
    /\ page = 0 /\ cand = 0 /\ empty_streak = 0 /\ got_new = FALSE
    /\ probe = 0 /\ builder = 0 /\ started = {} /\ max_pages = 0

\* title = best_title_for_anchor(a)
TileTitle ==
    /\ prog = "tile" /\ pc = "anchor"
    /\ extract' = [extract EXCEPT !.title = best_title_for_anchor(extract.dom),
                                  !.step = "title"]
    /\ pc' = "price"
    /\ UNCHANGED extractFrame

\* The price is looked for, and the record is appended to out.
TileAppend ==
    /\ prog = "tile" /\ pc = "price"
    /\ extract' = [extract EXCEPT
           !.out = << [product_title |-> extract.title,
                       product_url |-> TileUrl(extract.dom.href),
                       listing_id |-> extract_listing_id(TileUrl(extract.dom.href)),
                       price |-> NearestPrice(extract.dom,
                                              << "a", "parent", "grandparent" >>)] >>,
           !.step = "out"]
    /\ pc' = "appended"
    /\ UNCHANGED extractFrame

NextTile ==
    \/ TileTitle
    \/ TileAppend

SpecTile == InitTile /\ [][NextTile]_vars

\* ------------------------------------------------------- user interrupt
\* A KeyboardInterrupt between two page fetches of scrape_by_store_id: in
\* the while test or in sleep_politely (kilimall_scraper.py 355, 387-388).
\* No frame catches it (fetch catches requests.RequestException, append_rows
\* catches Exception, and KeyboardInterrupt is neither): scrape_by_store_id
\* and run() are left with the exception, their locals all_items, seen_paths
\* and everything go with their frames, and no sink call is made.
Interrupt ==
    /\ prog = "by_store_id" /\ store \in 1..NumStores
    /\ pc \in {"while", "page_end"}
    /\ requests > 0
    /\ pc' = "interrupted"
    /\ rows' = <<>>
    /\ seen' = {}
    /\ everything' = <<>>
    /\ UNCHANGED <<extract, url, call, prog, site, strategies, si, vi, strategy_found,
                   new_products, html_ok, fetched, requests, page, cand,
                   empty_streak, got_new, bkVars, max_pages, store, returned, writes>>

\* run() of kilimall_scraper.py, which the user may interrupt.
InitInterrupt ==
    /\ InitRun
    /\ prog = "by_store_id"

NextInterrupt ==
    \/ NextByStoreId
    \/ RunNextStore
    \/ RunSink
    \/ SinkBatch
    \/ SinkRow
    \/ Interrupt

SpecInterrupt == InitInterrupt /\ [][NextInterrupt]_vars

\* ------------------------------------------- fetch calls and the delays
\* What a crawl sees of one fetch call (kilimall_scraper.py 71-87,
\* kilimall_scraper_backup.py 90-101): a body with or without something
\* new in it; no body at once, on a status 4xx; no body after the last
\* attempt, each failed attempt being followed by sleep_politely().
FetchResults ==
    { [result |-> "body", new |-> TRUE, slept |-> 0],
      [result |-> "body", new |-> FALSE, slept |-> 0],
      [result |-> "none", new |-> FALSE, slept |-> 0],
      [result |-> "none", new |-> FALSE, slept |-> 1] }

\* The fetch call made last, and the calls of sleep_politely() since its
\* last HTTP request.
AfterFetch(o) == [http |-> <<>>, sleeps |-> o.slept, result |-> o.result]

\* scrape_by_store_id or detect_page_builder is called; no fetch was made.
InitPace ==
    /\ site = Free
    /\ call = NoCall /\ url = NoUrl /\ extract = NoExtract
    /\ store = 0 /\ everything = <<>> /\ returned = <<>> /\ writes = <<>>
    /\ strategies = <<>> /\ si = 0 /\ vi = 0 /\ strategy_found = 0
    /\ fetched = <<>> /\ seen = {} /\ rows = <<>> /\ new_products = 0
    /\ html_ok = FALSE /\ requests = 0
    /\ cand = 1 /\ empty_streak = 0 /\ got_new = FALSE
    /\ builder = 0 /\ started = {} /\ max_pages = 0
    /\ \/ prog = "by_store_id" /\ pc = "pace_while" /\ page = 1 /\ probe = 0
       \/ prog = "backup" /\ pc = "pace_probe" /\ page = 0 /\ probe = 1

paceFrame == <<extract, url, runVars, prog, site, optVars, seen, rows, new_products,
               html_ok, requests, started, max_pages>>

\* kilimall_scraper.py 355-356: the while test holds.
PaceWhile ==
    /\ prog = "by_store_id" /\ pc = "pace_while"
    /\ KeepPaging(page, empty_streak)
    /\ got_new' = FALSE
    /\ cand' = 1
    /\ pc' = "pace_candidate"
    /\ UNCHANGED <<paceFrame, call, page, empty_streak, probe, builder>>

\* Lines 358-379: the next candidate URL is fetched; without a body, or
\* with nothing new in it, the next candidate follows at once; a candidate
\* with something new, and the last one, end the page step.
PaceCandidate ==
    /\ prog = "by_store_id" /\ pc = "pace_candidate"
    /\ \E o \in FetchResults :
        /\ call' = AfterFetch(o)
        /\ got_new' = o.new
        /\ IF o.new \/ cand = Len(subpage_candidates(page))
               THEN pc' = "pace_page_end" /\ cand' = cand
               ELSE pc' = "pace_candidate" /\ cand' = cand + 1
    /\ UNCHANGED <<paceFrame, page, empty_streak, probe, builder>>

\* Lines 381-388: the streak, the next page, and sleep_politely().
PacePageEnd ==
    /\ prog = "by_store_id" /\ pc = "pace_page_end"
    /\ empty_streak' = NextStreak(empty_streak, got_new)
    /\ page' = page + 1
    /\ call' = [call EXCEPT !.sleeps = @ + 1]
    /\ pc' = "pace_while"
    /\ UNCHANGED <<paceFrame, cand, got_new, probe, builder>>

\* Lines 390-393: the while test fails.
PaceReturn ==
    /\ prog = "by_store_id" /\ pc = "pace_while"
    /\ ~KeepPaging(page, empty_streak)
    /\ pc' = "pace_done"
    /\ UNCHANGED <<paceFrame, call, byIdVars, probe, builder>>

\* detect_page_builder (kilimall_scraper_backup.py 160-188): the next probe
\* is fetched; without a body, or without enough new items, the next probe
\* follows at once; the first probe that finds returns its builder.
PaceProbe ==
    /\ prog = "backup" /\ pc = "pace_probe"
    /\ \E o \in FetchResults :
        /\ call' = AfterFetch(o)
        /\ IF o.new
               THEN builder' = probe /\ probe' = probe /\ pc' = "pace_done"
               ELSE /\ builder' = 0
                    /\ IF probe = NumProbes
                           THEN pc' = "pace_done" /\ probe' = probe
                           ELSE pc' = "pace_probe" /\ probe' = probe + 1
    /\ UNCHANGED <<paceFrame, byIdVars>>

NextPace ==
    \/ PaceWhile
    \/ PaceCandidate
    \/ PacePageEnd
    \/ PaceReturn
    \/ PaceProbe

SpecPace == InitPace /\ [][NextPace]_vars

\* ------------------------------------------- the anchors of one page
\* Most anchors of a page.
MaxAnchors == 3

\* A_SELECTORS: href begins with (^=) or contains (*=) a pattern.
Selector(op, pat) == [op |-> op, pat |-> pat]
A_SELECTORS ==
    << Selector("^=", "/listing/"), Selector("*=", "/listing/"),
       Selector("^=", "/item/"), Selector("*=", "/item/"),
       Selector("*=", "/product/"), Selector("*=", "/detail/"),
       Selector("*=", "/goods/") >>

\* The href attributes of the anchors: white space, then one of these.
HrefBodies == {"/listing/1", "/item/3", "javascript:open('/listing/1')", "#", ""}

\* An anchor: its href attribute as written, and its data-href attribute.
PageAnchors ==
    { [pad |-> p, body |-> b, data |-> dt] :
        p \in {"", " "}, b \in HrefBodies, dt \in {"", "/listing/1"} }

\* The pattern of A_SELECTORS that the text holds, "" when it holds none.
PatternIn(body) ==
    CASE body = "/listing/1" -> "/listing/"
      [] body = "javascript:open('/listing/1')" -> "/listing/"
      [] body = "/item/3" -> "/item/"
      [] OTHER -> ""

\* Whether the href attribute of anchor a matches the selector.
Matches(sel, a) ==
    /\ PatternIn(a.body) = sel.pat
    /\ sel.op = "^=" => a.pad = "" /\ a.body \in {"/listing/1", "/item/3"}

\* soup.select(sel): the anchors that match, in the order of the document.
soup_select(doc, sel) ==
    SelectSeq([i \in 1..Len(doc) |-> i], LAMBDA i : Matches(sel, doc[i]))

\* The anchors of every selector, one selector after the other.
RECURSIVE SelectAll(_, _)
SelectAll(doc, sels) ==
    IF sels = <<>> THEN <<>>
    ELSE soup_select(doc, Head(sels)) \o SelectAll(doc, Tail(sels))

\* (a.get("href") or a.get("data-href") or a.get("data-url") or "").strip()
HrefOf(a) == IF a.pad # "" \/ a.body # "" THEN a.body ELSE a.data

\* not href or href.startswith("javascript:") or href == "#"
NoProductHref(href) ==
    href = "" \/ href = "javascript:open('/listing/1')" \/ href = "#"

\* A loop that does not look into seen_hrefs.
RECURSIVE Records_EveryAnchor(_, _, _)
Records_EveryAnchor(doc, anchors, seen_hrefs) ==
    IF anchors = <<>> THEN <<>>
    ELSE LET href == HrefOf(doc[Head(anchors)])
         IN  IF NoProductHref(href)
                 THEN Records_EveryAnchor(doc, Tail(anchors), seen_hrefs)
                 ELSE << [href |-> href, anchor |-> Head(anchors)] >>
                          \o Records_EveryAnchor(doc, Tail(anchors), seen_hrefs \cup {href})
\* The loop over uniq_anchors: an anchor without a product href is passed
\* over, and so is one whose href was seen; the others give a record each.
RECURSIVE Records(_, _, _)
Records(doc, anchors, seen_hrefs) ==
    IF anchors = <<>> THEN <<>>
    ELSE LET href == HrefOf(doc[Head(anchors)])
         IN  IF NoProductHref(href) \/ href \in seen_hrefs
                 THEN Records(doc, Tail(anchors), seen_hrefs)
                 ELSE << [href |-> href, anchor |-> Head(anchors)] >>
                          \o Records(doc, Tail(anchors), seen_hrefs \cup {href})

\* parse_product_tiles is given a page of anchors.
InitAnchors ==
    /\ site = Free
    /\ prog = "anchors"
    /\ pc = "soup"
    /\ \E doc \in SeqsUpTo(PageAnchors, MaxAnchors) :
          extract = [doc |-> doc, uniq_anchors |-> <<>>, out |-> <<>>, step |-> "soup"]
    /\ url = NoUrl
    /\ call = NoCall
    /\ store = 0 /\ everything = <<>> /\ returned = <<>> /\ writes = <<>>
    /\ strategies = <<>> /\ si = 0 /\ vi = 0 /\ strategy_found = 0
    /\ fetched = <<>> /\ seen = {} /\ rows = <<>> /\ new_products = 0
    /\ html_ok = FALSE /\ requests = 0
    /\ page = 0 /\ cand = 0 /\ empty_streak = 0 /\ got_new = FALSE
    /\ probe = 0 /\ builder = 0 /\ started = {} /\ max_pages = 0

\* Lines 260-271: the anchors of the selectors, each element once.
CollectAnchors ==
    /\ prog = "anchors" /\ pc = "soup"
    /\ extract' = [extract EXCEPT
           !.uniq_anchors = NotTried(SelectAll(extract.doc, A_SELECTORS), {}),
           !.step = "uniq_anchors"]
    /\ pc' = "anchors"
    /\ UNCHANGED extractFrame

\* Lines 273-307: the records of the anchors.
AnchorRecords ==
    /\ prog = "anchors" /\ pc = "anchors"
    /\ extract' = [extract EXCEPT
           !.out = Records(extract.doc, extract.uniq_anchors, {}),
           !.step = "out"]
    /\ pc' = "returned"
    /\ UNCHANGED extractFrame

NextAnchors ==
    \/ CollectAnchors
    \/ AnchorRecords

SpecAnchors == InitAnchors /\ [][NextAnchors]_vars

\* ------------------------------------- one tile, from the page to the sink
\* parse_products of kilimall_scraper_optimized.py on the tile. The link is
\* taken if its href begins with /listing/. The title is the title or
\* aria-label attribute, else the text of the link, else the text of the
\* first element with a title class inside the container, which is the
\* nearest ancestor with a product class.
LinkTitle(dom) ==
    LET container == IF "parent" \in dom.titled THEN "parent" ELSE "grandparent"
        inside == IF container = "parent" THEN << "sibling" >>
                  ELSE << "sibling", "uncle" >>
        title_elem == SelectSeq(inside, LAMBDA el : el \in dom.titled)
    IN  IF dom.text["title"] # <<>> THEN dom.text["title"]
        ELSE IF dom.text["aria-label"] # <<>> THEN dom.text["aria-label"]
        ELSE IF get_text(dom, "a") # <<>> THEN get_text(dom, "a")
        ELSE IF title_elem # <<>> THEN get_text(dom, Head(title_elem))
        ELSE <<>>

\* A parser that adds the product whatever its title.
parse_product_Untitled(dom) ==
    IF dom.href.dir = "listing"
        THEN << [product_title |-> LinkTitle(dom), product_url |-> TileUrl(dom.href),
                 listing_id |-> "", price |-> <<>>] >>
        ELSE <<>>
\* parse_products: the product is added only if it has a title (line 150);
\* it has no listing_id, and no price without an element of a price class.
parse_product(dom) ==
    IF dom.href.dir = "listing" /\ LinkTitle(dom) # <<>>
        THEN << [product_title |-> LinkTitle(dom), product_url |-> TileUrl(dom.href),
                 listing_id |-> "", price |-> <<>>] >>
        ELSE <<>>

\* The page of one tile is given to scrape_by_store_id of
\* kilimall_scraper.py or to scrape_store_optimized.
InitKeep ==
    \/ InitTile
    \/ /\ site = Free
       /\ prog = "tile_optimized"
       /\ pc = "link"
       /\ \E F \in { G \in SUBSET Places : Cardinality(G) <= MaxFilled } :
            \E h \in TileHrefs, t \in [F -> TileTexts],
               c \in SUBSET ({"parent"} \cup (F \cap Nearby)) :
                extract = [dom |-> TileDom(h, F, t, c), title |-> <<>>, out |-> <<>>,
                           step |-> "link"]
       /\ url = NoUrl
       /\ call = NoCall
       /\ store = 0 /\ everything = <<>> /\ returned = <<>> /\ writes = <<>>
       /\ strategies = <<>> /\ si = 0 /\ vi = 0 /\ strategy_found = 0
       /\ fetched = <<>> /\ seen = {} /\ rows = <<>> /\ new_products = 0
       /\ html_ok = FALSE /\ requests = 0
       /\ page = 0 /\ cand = 0 /\ empty_streak = 0 /\ got_new = FALSE
       /\ probe = 0 /\ builder = 0 /\ started = {} /\ max_pages = 0

keepFrame == <<url, call, prog, site, strategies, si, vi, strategy_found,
               new_products, html_ok, fetched, requests, page, cand,
               empty_streak, got_new, bkVars, max_pages, store, everything, returned>>

\* products = parse_products(html)
ParseProduct ==
    /\ prog = "tile_optimized" /\ pc = "link"
    /\ extract' = [extract EXCEPT !.title = LinkTitle(extract.dom),
                                  !.out = parse_product(extract.dom),
                                  !.step = "out"]
    /\ pc' = "appended"
    /\ UNCHANGED <<keepFrame, seen, rows, writes>>

\* The merge of the batch: scrape_by_store_id keeps the item under its
\* canonical URL and sets its product_url to it (kilimall_scraper.py
\* 365-376); scrape_store_optimized keeps the product under its
\* product_url (kilimall_scraper_optimized.py 188-193).
KeepMerge ==
    /\ prog \in {"tile", "tile_optimized"} /\ pc = "appended"
    /\ LET key(it) == IF prog = "tile" THEN canonical_product_url(it.product_url)
                      ELSE ProductKey(it.product_url)
           new == SelectSeq(extract.out, LAMBDA it : key(it) \notin seen)
       IN  /\ seen' = seen \cup { key(new[i]) : i \in 1..Len(new) }
           /\ rows' = rows \o [i \in 1..Len(new) |->
                                  [new[i] EXCEPT !.product_url = key(new[i])]]
    /\ pc' = "merged"
    /\ UNCHANGED <<keepFrame, extract, writes>>

\* run(): the rows go to append_rows; kilimall_scraper_optimized.py
\* returns before when there is no row (kilimall_scraper.py 415-428,
\* kilimall_scraper_optimized.py 223-229).
KeepWrite ==
    /\ prog \in {"tile", "tile_optimized"} /\ pc = "merged"
    /\ writes' = IF prog = "tile_optimized" /\ rows = <<>> THEN writes
                 ELSE Append(writes, SinkCall("sink", rows, TRUE))
    /\ pc' = "exit"
    /\ UNCHANGED <<keepFrame, extract, seen, rows>>

NextKeep ==
    \/ TileTitle
    \/ TileAppend
    \/ ParseProduct
    \/ KeepMerge
    \/ KeepWrite

SpecKeep == InitKeep /\ [][NextKeep]_vars

\* ------------------------------------------------------------------
\* append_rows against the worksheet (kilimall_scraper.py lines 124-131,
\* oraimo_scraper.py lines 298-306; the two bodies are the same).

\* The longest batch handed to append_rows.
MaxBatch == 3

\* The rows a batch is made of.
BatchRows == {"r1", "r2"}

\* What a worksheet request can do.  It returns after the worksheet took
\* the rows, it raises with the worksheet untouched, or it raises after the
\* worksheet took the rows (the answer was lost or unusable); a request is
\* one call of the service, which takes all of its rows or none.
Requests == {"ok", "raised", "raised_after_write"}

\* The worksheet after a request with the given outcome.
Taken(sheet, rs, outcome) ==
    IF outcome = "raised" THEN sheet ELSE sheet \o rs

\* The state at the call of append_rows(ws, rows): the worksheet holds its
\* header and possibly rows of an earlier run.
InitAppend ==
    /\ site = Free
    /\ prog = "append_rows"
    /\ pc = "if_rows"
    /\ \E rs \in SeqsUpTo(BatchRows, MaxBatch), before \in {<<"header">>, <<"header", "r1">>} :
          extract = [rows |-> rs, before |-> before, sheet |-> before,
                     r |-> 0, step |-> "if_rows"]
    /\ url = NoUrl
    /\ call = NoCall
    /\ store = 0 /\ everything = <<>> /\ returned = <<>> /\ writes = <<>>
    /\ strategies = <<>> /\ si = 0 /\ vi = 0 /\ strategy_found = 0
    /\ fetched = <<>> /\ seen = {} /\ rows = <<>> /\ new_products = 0
    /\ html_ok = FALSE /\ requests = 0
    /\ page = 0 /\ cand = 0 /\ empty_streak = 0 /\ got_new = FALSE
    /\ probe = 0 /\ builder = 0 /\ started = {} /\ max_pages = 0

appendFrame == <<keepFrame, seen, rows, writes>>

\* Lines 125-126: an empty batch returns at once.
AppendIfRows ==
    /\ prog = "append_rows" /\ pc = "if_rows"
    /\ pc' = IF extract.rows = <<>> THEN "returned" ELSE "try"
    /\ extract' = [extract EXCEPT !.step = "try"]
    /\ UNCHANGED appendFrame

\* Lines 127-129: the batch request; any Exception leads to the fallback.
AppendBatch ==
    /\ prog = "append_rows" /\ pc = "try"
    /\ \E outcome \in Requests :
          /\ extract' = [extract EXCEPT
                            !.sheet = Taken(@, extract.rows, outcome),
                            !.step = outcome]
          /\ pc' = IF outcome = "ok" THEN "returned" ELSE "except"
    /\ UNCHANGED appendFrame

\* Lines 130-131: the fallback appends the rows one request each; an
\* exception of a row request leaves append_rows.
AppendRowByRow ==
    /\ prog = "append_rows" /\ pc = "except"
    /\ IF extract.r = Len(extract.rows)
           THEN pc' = "returned" /\ extract' = [extract EXCEPT !.step = "end"]
           ELSE \E outcome \in Requests :
                    /\ extract' = [extract EXCEPT
                                      !.sheet = Taken(@, <<extract.rows[extract.r + 1]>>, outcome),
                                      !.r = @ + 1,
                                      !.step = outcome]
                    /\ pc' = IF outcome = "ok" THEN "except" ELSE "raised"
    /\ UNCHANGED appendFrame

NextAppend == AppendIfRows \/ AppendBatch \/ AppendRowByRow

SpecAppend == InitAppend /\ [][NextAppend]_vars

\* ------------------------------------------------------------------
\* phones_scrap.py: run(), discovery of the product URLs per category and
\* one products row per discovered URL (lines 756-893), with
\* scrape_category (lines 345-380).

\* The most listing pages a category has.
MaxCatPages == 2

\* CATEGORY_URLS (lines 24-28), in the order of the dict.
CATEGORY_URLS == <<"infinix", "tecno", "itel">>

\* The product links a listing page can hold: a path and a query.
ProductLinks ==
    { [path |-> "/product/p1", query |-> ""],
      [path |-> "/product/p1", query |-> "ref=grid"],
      [path |-> "/product/p2", query |-> ""] }

\* strip_query (lines 74-79): the URL without its query.
strip_query(u) == [u EXCEPT !.query = ""]

\* The product URLs in sorted order.
ProductOrder ==
    << [path |-> "/product/p1", query |-> ""], [path |-> "/product/p2", query |-> ""] >>

\* Lines 204-259 of extract_product_links_from: the set of the links of a
\* page, each without its query, as a sorted list.
extract_product_links_from(links) ==
    SelectSeq(ProductOrder, LAMBDA u : u \in { strip_query(l) : l \in links })

\* What the fetch of a listing page can give: no html, or html with the
\* product links parse_category_product_urls finds in it.
CatPages ==
    { [html |-> FALSE, urls |-> <<>>] } \cup
    { [html |-> TRUE, urls |-> extract_product_links_from(S)] : S \in SUBSET ProductLinks }

\* Lines 357-376: the loop of scrape_category over the listing pages from
\* page i on, with the URLs collected so far.
RECURSIVE category_pages(_, _, _)
category_pages(pages, i, all_urls) ==
    IF i > Len(pages) THEN all_urls
    ELSE IF i > 1 /\ ~pages[i].html THEN all_urls
    ELSE LET urls == pages[i].urls
             new_urls == SelectSeq(urls, LAMBDA u : u \notin Range(all_urls))
         IN  IF i > 1 /\ urls = <<>> THEN all_urls \o new_urls
             ELSE category_pages(pages, i + 1, all_urls \o new_urls)

\* Lines 345-380: nothing when the first page has no html.
scrape_category(pages) ==
    IF ~pages[1].html THEN <<>> ELSE category_pages(pages, 1, <<>>)

\* What the fetch and the parse of a product page can do: the fetch
\* returns nothing, parse_product_page raises, or the page is parsed.
ProductOutcomes == {"no_html", "parse_raises", "parsed"}

\* Lines 782-883: the scrape_error of the row appended for an outcome.
scrape_error(outcome) ==
    CASE outcome = "no_html" -> "fetch_failed"
      [] outcome = "parse_raises" -> "parse_failed"
      [] OTHER -> ""

\* Lines 782-883: the products row of a URL handled under category cat;
\* parse_product_page returns the category it was given (line 628).
ProductRow(cat, purl, outcome) ==
    [category |-> cat,
     product_url |-> IF outcome = "parsed" THEN strip_query(purl) ELSE purl,
     scrape_error |-> scrape_error(outcome)]

\* The state at the start of run() (lines 756-763).
InitPhones ==
    /\ site = Free
    /\ prog = "phones"
    /\ pc = "discover"
    /\ extract = [cat_to_urls |-> <<>>, c |-> 1, k |-> 1, seen_products |-> {},
                  products_rows |-> <<>>, fetched |-> <<>>, step |-> "discover"]
    /\ url = NoUrl
    /\ call = NoCall
    /\ store = 0 /\ everything = <<>> /\ returned = <<>> /\ writes = <<>>
    /\ strategies = <<>> /\ si = 0 /\ vi = 0 /\ strategy_found = 0
    /\ fetched = <<>> /\ seen = {} /\ rows = <<>> /\ new_products = 0
    /\ html_ok = FALSE /\ requests = 0
    /\ page = 0 /\ cand = 0 /\ empty_streak = 0 /\ got_new = FALSE
    /\ probe = 0 /\ builder = 0 /\ started = {} /\ max_pages = 0

\* Lines 764-766: the product URLs of the next category.
PhonesDiscover ==
    /\ prog = "phones" /\ pc = "discover"
    /\ \E n \in 1..MaxCatPages : \E pages \in [1..n -> CatPages] :
          LET found == Append(extract.cat_to_urls, scrape_category(pages))
          IN  /\ extract' = [extract EXCEPT !.cat_to_urls = found, !.step = "discover"]
              /\ pc' = IF Len(found) = Len(CATEGORY_URLS) THEN "products" ELSE "discover"
    /\ UNCHANGED appendFrame

\* A turn of the loops that fetches a URL whether it was seen or not.
PhonesProduct_NoSeenCheck ==
    /\ prog = "phones" /\ pc = "products"
    /\ extract.c <= Len(CATEGORY_URLS)
    /\ LET urls == extract.cat_to_urls[extract.c]
       IN  IF extract.k > Len(urls)
               THEN extract' = [extract EXCEPT !.c = @ + 1, !.k = 1, !.step = "next_category"]
           ELSE \E outcome \in ProductOutcomes :
                    extract' = [extract EXCEPT
                        !.k = @ + 1,
                        !.seen_products = @ \cup {urls[extract.k]},
                        !.fetched = Append(@, [url |-> urls[extract.k], outcome |-> outcome]),
                        !.products_rows =
                            Append(@, ProductRow(CATEGORY_URLS[extract.c], urls[extract.k], outcome)),
                        !.step = outcome]
    /\ pc' = "products"
    /\ UNCHANGED appendFrame

\* Lines 773-883: one turn of the loops over the categories and their URLs.
\* A URL seen before is skipped; else it is fetched and one row is
\* appended, whatever the fetch and the parse do.
PhonesProduct ==
    /\ prog = "phones" /\ pc = "products"
    /\ extract.c <= Len(CATEGORY_URLS)
    /\ LET urls == extract.cat_to_urls[extract.c]
       IN  IF extract.k > Len(urls)
               THEN extract' = [extract EXCEPT !.c = @ + 1, !.k = 1, !.step = "next_category"]
           ELSE IF urls[extract.k] \in extract.seen_products
               THEN extract' = [extract EXCEPT !.k = @ + 1, !.step = "continue"]
           ELSE \E outcome \in ProductOutcomes :
                    extract' = [extract EXCEPT
                        !.k = @ + 1,
                        !.seen_products = @ \cup {urls[extract.k]},
                        !.fetched = Append(@, [url |-> urls[extract.k], outcome |-> outcome]),
                        !.products_rows =
                            Append(@, ProductRow(CATEGORY_URLS[extract.c], urls[extract.k], outcome)),
                        !.step = outcome]
    /\ pc' = "products"
    /\ UNCHANGED appendFrame

\* Lines 885-886: both loops are over; the rows go to the load.
PhonesCollected ==
    /\ prog = "phones" /\ pc = "products"
    /\ extract.c > Len(CATEGORY_URLS)
    /\ pc' = "collected"
    /\ extract' = [extract EXCEPT !.step = "collected"]
    /\ UNCHANGED appendFrame

NextPhones == PhonesDiscover \/ PhonesProduct \/ PhonesCollected

SpecPhones == InitPhones /\ [][NextPhones]_vars

\* ------------------------------------------------------------------ claims
CanonSet(s) == { canonical_product_url(s[i]) : i \in 1..Len(s) }

\* No two records have the same canonical URL.
CanonicallyDistinct(records) ==
    \A i, j \in 1..Len(records) :
        canonical_product_url(records[i]) = canonical_product_url(records[j])
            => i = j

\* C1: at every moment of a storefront crawl (scrape_by_store_id,
\* scrape_store_optimized) no two records have the same canonical URL.
C1_NoTwoRecordsShareCanonicalUrl ==
    prog \in {"by_store_id", "optimized"} => CanonicallyDistinct(rows)

\* C1, for scrape_by_store_id alone (where it holds).
ByStoreIdNoTwoRecordsShareCanonicalUrl ==
    prog = "by_store_id" => CanonicallyDistinct(rows)

\* The sum of the page budgets of a strategy list.
RECURSIVE SumBudgets(_)
SumBudgets(list) ==
    IF list = <<>> THEN 0
    ELSE (IF "values" \in DOMAIN Head(list) THEN Len(Head(list).values)
          ELSE Head(list).max_pages) + SumBudgets(Tail(list))

\* The candidate URLs of the pages 1..n of scrape_by_store_id.
RECURSIVE CandidatesUpTo(_)
CandidatesUpTo(n) ==
    IF n <= 0 THEN 0 ELSE Len(subpage_candidates(n)) + CandidatesUpTo(n - 1)

RECURSIVE StepsOfStrategies(_)
StepsOfStrategies(from) ==
    IF from > Len(strategies) THEN 0
    ELSE PageBudget(strategies[from]) + 2 + StepsOfStrategies(from + 1)

\* Steps scrape_by_store_id can still take for the pages from..cap: per
\* page its start, its candidates and its end.
\* No page has more candidate URLs than two indexes under every variant.
MostCandidates == 2 * Len(Variants)

StepsOfPages(from) ==
    IF from > MAX_PAGES_PER_STORE THEN 0
    ELSE (MAX_PAGES_PER_STORE - from + 1) * (MostCandidates + 2)

\* An upper bound of the steps the crawl can still take.
Variant ==
    IF pc = "done" THEN 0
    ELSE IF prog = "optimized" THEN
        CASE pc = "strategy" -> 1 + StepsOfStrategies(si)
          [] pc = "page" ->
                2 + StepsOfStrategies(si + 1)
                  + (PageBudget(strategies[si]) - vi + 1)
          [] OTHER -> 2 + StepsOfStrategies(si + 1)
    ELSE
        CASE pc = "while" -> 1 + StepsOfPages(page)
          [] pc = "candidate" ->
                2 + StepsOfPages(page + 1) + (MostCandidates - cand + 1)
          [] OTHER -> 2 + StepsOfPages(page + 1)

\* C3: whatever the fetches answer, the crawl reaches its return: every
\* step lowers a natural-number bound of the steps left, and under
\* FairSpec the return is reached.
C3_CrawlTerminates ==
    /\ <>(pc = "done")
    /\ [][Variant' < Variant /\ Variant' >= 0]_vars

\* C3's case: a crawl none of whose fetches returned a tile has returned,
\* with no record.
C3_Witness ==
    /\ pc = "done" /\ requests > 0 /\ rows = <<>>

\* C4 as stated: a strategy that already found records and now gets a page
\* holding only canonical URLs already recorded stops with that page.
C4_SeenOnlyPageStopsStrategy ==
    [][(/\ prog = "optimized" /\ pc = "page"
        /\ strategy_found > 0
        /\ html_ok'
        /\ CanonSet(rows') = CanonSet(rows))
       => pc' = "strategy_end"]_vars

\* C5 as stated: a failed fetch ends the strategy: no record is added and
\* the strategy requests no further page.
C5_FailedFetchEndsStrategy ==
    [][/\ (prog = "optimized" /\ pc = "page" /\ ~html_ok')
            => (rows' = rows /\ pc' = "strategy_end")
       /\ (prog = "backup" /\ pc \in {"page1", "probe", "paginate"} /\ ~html_ok')
            => (rows' = rows /\ (pc' = "strategy_end" \/ si' = si + 1))]_vars

\* C5 amended: a failed fetch adds no record. In scrape_store_optimized, on
\* a value other than the strategy's first it ends the strategy, which
\* requests nothing more and hands over to the next strategy; on the first
\* value the strategy goes on to its second value. In scrape_store a failed
\* page 1 or a failed paginated page ends the strategy and the next one is
\* due; a failed probe of detect_page_builder is followed by the next probe.
C5_FailedFetchAfterFirstEndsStrategy ==
    [][/\ prog = "optimized" =>
          /\ (pc = "page" /\ ~html_ok') =>
                LET values == StrategyValues(strategies[si])
                IN  /\ rows' = rows /\ seen' = seen
                    /\ values[vi] # values[1] => pc' = "strategy_end"
                    /\ (values[vi] = values[1] /\ vi < Len(values)) =>
                          (pc' = "page" /\ vi' = vi + 1 /\ si' = si)
          /\ pc = "strategy_end" =>
                (si' = si + 1 /\ pc' = "strategy" /\ fetched' = fetched)
       /\ prog = "backup" =>
          /\ (pc \in {"page1", "probe", "paginate"} /\ ~html_ok') =>
                (rows' = rows /\ seen' = seen)
          /\ (pc = "page1" /\ si <= Len(sort_strategies) /\ ~html_ok') =>
                (si' = si + 1 /\ pc' = "page1")
          /\ (pc = "paginate" /\ ~html_ok') => pc' = "strategy_end"
          /\ (pc = "probe" /\ ~html_ok') =>
                IF probe < NumProbes
                    THEN pc' = "probe" /\ probe' = probe + 1 /\ si' = si
                    ELSE pc' = "strategy_end"
          /\ pc = "strategy_end" => (si' = si + 1 /\ pc' = "page1")]_vars

\* C5's case: a fetch after the strategy's first failed, with budget left,
\* and the strategy is over.
C5_Witness ==
    /\ prog = "optimized" /\ pc = "strategy_end" /\ ~html_ok
    /\ vi > 1 /\ vi < PageBudget(strategies[si])
    /\ si < Len(strategies)

\* C7: the strategies run one after another in list order: each is started
\* once, a fetch belongs to the current strategy and no later strategy has
\* fetched before it, and an ended strategy fetches nothing more.
C7_OptimizedStrategiesRunInOrder ==
    [][prog = "optimized" =>
        /\ si' \in {si, si + 1}
        /\ \A s \in DOMAIN fetched :
              fetched'[s] # fetched[s] =>
                /\ s = si /\ pc = "page"
                /\ fetched'[s] = fetched[s] + 1
                /\ \A t \in DOMAIN fetched : t > s => fetched[t] = 0
        /\ (pc = "strategy" /\ pc' = "page") => fetched[si] = 0
        /\ pc = "strategy_end" => (fetched' = fetched /\ si' = si + 1)]_vars

\* C7 in scrape_store: a strategy is started (its page 1 requested) once and
\* when no later strategy has started; the probes and paginated pages are
\* those of the strategy started last; an ended strategy requests nothing
\* and the next one is due.
C7_StoreStrategiesRunInOrder ==
    [][prog = "backup" =>
        /\ si' \in {si, si + 1}
        /\ started' # started =>
              (pc = "page1" /\ si \notin started /\ started' = started \cup {si})
        /\ (pc = "page1" /\ pc' # "done") => started' # started
        /\ \A t \in started : t <= si
        /\ pc \in {"probe", "paginate"} => (si \in started /\ si' = si)
        /\ pc = "strategy_end" =>
              (si' = si + 1 /\ pc' = "page1" /\ started' = started)]_vars

\* C7: in scrape_store_optimized and in scrape_store the strategies run
\* one after another in list order, each started once, and a strategy that
\* has stopped requests nothing more.
C7_StrategiesRunInOrder ==
    C7_OptimizedStrategiesRunInOrder /\ C7_StoreStrategiesRunInOrder

\* C7's case: the second strategy is fetching after the first was stopped
\* before the end of its budget.
C7_Witness ==
    /\ prog = "optimized" /\ si = 2 /\ pc = "page"
    /\ fetched[1] >= 2 /\ fetched[1] < PageBudget(strategies[1])
    /\ fetched[2] >= 1

\* C8: a first value without a new record does not stop the strategy, which
\* requests its second value; a strategy is stopped before the end of its
\* values only by a page without a new record at a value after the first.
C8_FirstPageNeverStops ==
    [][(prog = "optimized" /\ pc = "page") =>
        LET values == StrategyValues(strategies[si])
        IN  /\ (vi = 1 /\ new_products' = 0 /\ Len(values) >= 2) =>
                  (pc' = "page" /\ vi' = 2 /\ si' = si)
            /\ (pc' = "strategy_end" /\ vi < Len(values)) =>
                  (new_products' = 0 /\ vi > 1)]_vars

\* C8's case: the second value is due after a first page without a new
\* record.
C8_Witness ==
    /\ prog = "optimized" /\ pc = "page" /\ vi = 2
    /\ new_products = 0 /\ fetched[si] = 1

\* The page budget the configuration gives a strategy.
ConfiguredBudget(strategy) ==
    IF "values" \in DOMAIN strategy THEN Len(strategy.values)
    ELSE strategy.max_pages

\* C9 as stated: no strategy issues more fetches than its page budget: a
\* strategy of scrape_store_optimized its range or list, scrape_by_store_id
\* MAX_PAGES_PER_STORE, scrape_category MAX_PAGES_PER_COLLECTION.
C9_FetchesWithinPageBudget ==
    /\ prog = "optimized" =>
          \A s \in DOMAIN fetched : fetched[s] <= ConfiguredBudget(strategies[s])
    /\ prog = "by_store_id" => requests <= MAX_PAGES_PER_STORE
    /\ prog = "oraimo_bq" => requests <= MAX_PAGES_PER_COLLECTION

\* C9 amended: a strategy of scrape_store_optimized never fetches more pages
\* than its budget and is over once the budget is used; scrape_category
\* never fetches more pages than MAX_PAGES_PER_COLLECTION, nor, past page 1,
\* than the first page announced; scrape_by_store_id never takes more page
\* indexes than MAX_PAGES_PER_STORE, each of them costing at most one fetch
\* per candidate URL (so its fetches can outnumber the budget), and returns
\* once the indexes are used.
C9_PageBudgetRespected ==
    /\ prog = "optimized" =>
          \A s \in DOMAIN fetched :
              /\ fetched[s] <= ConfiguredBudget(strategies[s])
              /\ (fetched[s] = ConfiguredBudget(strategies[s]) /\ s = si)
                    => pc = "strategy_end"
    /\ prog = "by_store_id" =>
          /\ page <= MAX_PAGES_PER_STORE + 1
          /\ pc \in {"candidate", "page_end"} =>
                (page <= MAX_PAGES_PER_STORE /\ cand <= MostCandidates)
          /\ requests <= MostCandidates * page
          /\ (pc = "while" /\ page > MAX_PAGES_PER_STORE) => ~ENABLED ByIdPageStart
    /\ prog = "oraimo_bq" =>
          /\ requests <= MAX_PAGES_PER_COLLECTION
          /\ max_pages <= MAX_PAGES_PER_COLLECTION
          /\ requests <= (IF max_pages > 1 THEN max_pages ELSE 1)
          /\ pc = "pages" => requests = page - 1

\* C9's case: a strategy used its whole budget, its last page still new.
C9_Witness ==
    /\ prog = "optimized" /\ pc = "strategy_end"
    /\ fetched[si] = ConfiguredBudget(strategies[si])
    /\ new_products > 0

\* The tiles of page p whose canonical URL is not in `keys`, in page order.
RECURSIVE CanonicallyNew(_, _)
CanonicallyNew(p, keys) ==
    IF p = <<>> THEN <<>>
    ELSE IF canonical_product_url(Head(p)) \in keys
        THEN CanonicallyNew(Tail(p), keys)
        ELSE <<Head(p)>> \o
             CanonicallyNew(Tail(p), keys \cup {canonical_product_url(Head(p))})

\* C10 as stated: a merge appends exactly the tiles of the page whose
\* canonical URL is not in the seen set, in page order, and adds their
\* canonical URLs to it; the earlier records stay in place, the seen set
\* only grows and holds the canonical URLs of the records.
C10_MergeAppendsCanonicallyNewTiles ==
    [][(prog \in {"by_store_id", "optimized"} /\ (rows' # rows \/ seen' # seen)) =>
        \E p \in Pages :
            LET new == CanonicallyNew(p, CanonSet(rows))
            IN  /\ CanonSet(rows') = CanonSet(rows) \cup CanonSet(new)
                /\ Len(rows') = Len(rows) + Len(new)
                /\ SubSeq(rows', 1, Len(rows)) = rows
                /\ seen \subseteq seen'
                /\ CanonSet(rows') = { canonical_product_url(u) : u \in seen' }
                /\ \A i \in 1..Len(new) :
                      canonical_product_url(rows'[Len(rows) + i])
                          = canonical_product_url(new[i])]_vars

\* C6: in scenario A pageNo requests nothing after page 2, offset adds
\* exactly 2 records, and the crawl returns 22 records.
C6_ScenarioA ==
    /\ fetched[1] <= 2
    /\ (si = 2 /\ pc = "strategy_end") => strategy_found = 2
    /\ pc = "done" =>
          /\ fetched[1] = 2
          /\ Len(rows) = 22
          /\ rows = TwentyTiles \o << ListingUrl(21), ListingUrl(22) >>

\* C6's case: scenario A has run to its end.
C6_Witness ==
    /\ site.name = "scenarioA" /\ pc = "done"
    /\ fetched[2] >= 2

\* ------------------------------------------------------------------ C11
\* The items of the crawls in returned[1..n], in order.
RECURSIVE ItemsOf(_)
ItemsOf(rets) ==
    IF rets = <<>> THEN <<>> ELSE Head(rets).items \o ItemsOf(Tail(rets))

\* The loop over the stores is over.
LoopOver == pc \in {"collected", "append_rows", "fallback", "exit", "raised"}

\* C11: a store or category whose crawl fails completely (its first page is
\* never fetched) does not stop run(): every store before the current one
\* was crawled, once the loop is over every store was, and the aggregated
\* list is exactly the items the crawls returned, in store order; the failed
\* crawl contributes nothing.
C11_FailedStoreDoesNotStopRun ==
    store >= 1 =>
        /\ Len(returned) = store - 1
        /\ LoopOver => Len(returned) = NumStores
        /\ everything = ItemsOf(returned)
        /\ \A i \in 1..Len(returned) : returned[i].failed => returned[i].items = <<>>

\* The first category failed at its first page, the second one returned
\* items, and they are all that run() hands on.
C11_Witness ==
    /\ prog = "oraimo_bq" /\ pc = "exit"
    /\ Len(returned) = NumStores
    /\ returned[1].failed
    /\ returned[NumStores].items # <<>>
    /\ everything = returned[NumStores].items

\* ------------------------------------------------------------------ C12
\* The calls of kind op in the sink log.
CallsOf(op) == SelectSeq(writes, LAMBDA w : w.op = op)

\* C12: the sink write happens only after all storefronts have completed and
\* is invoked exactly once with the full aggregated list, also when that
\* list is empty.
C12_SinkInvokedExactlyOnce ==
    /\ writes # <<>> => LoopOver /\ Len(returned) = NumStores
    /\ pc = "exit" /\ prog \in {"optimized", "by_store_id"} =>
        /\ Len(CallsOf("sink")) = 1
        /\ CallsOf("sink")[1].rows = everything

\* C12, amended: the sink function is called only after every store was
\* crawled, at most once, and with the full aggregated list. With an empty
\* list kilimall_scraper.py still calls it and it writes nothing, while
\* kilimall_scraper_optimized.py and oraimo_scrapper_bq.py do not call it.
\* There is at most one batch write, of the full list.
C12_SinkInvokedAtMostOnceAfterAllStores ==
    /\ writes # <<>> => LoopOver /\ Len(returned) = NumStores
    /\ Len(CallsOf("sink")) <= 1
    /\ Len(CallsOf("batch")) <= 1
    /\ \A i \in 1..Len(writes) :
        writes[i].op \in {"sink", "batch"} =>
            writes[i].rows = everything /\ everything = ItemsOf(returned)
    /\ everything = <<>> => CallsOf("batch") = <<>> /\ CallsOf("row") = <<>>
    /\ pc = "exit" =>
        (Len(CallsOf("sink")) = 1 <=> (prog = "by_store_id" \/ everything # <<>>))
    /\ pc = "exit" /\ everything # <<>> => Len(CallsOf("batch")) = 1

\* Every store returned an item, and run() ended after one call of the sink
\* whose batch write of all the items succeeded.
C12_Witness ==
    /\ pc = "exit"
    /\ \A i \in 1..NumStores : returned[i].items # <<>>
    /\ Len(writes) = 2
    /\ writes[1] = SinkCall("sink", everything, TRUE)
    /\ writes[2] = SinkCall("batch", everything, TRUE)

Transient(r) == r.kind # "response" \/ r.status >= 500

\* A response with a 4xx status.
Status4xx(r) == r.kind = "response" /\ r.status \in 400..499

\* A response with status 200, and for the fetch of kilimall_scraper_backup.py
\* and of the oraimo scrapers with an HTML content type.
Good200(p, r) ==
    /\ r.kind = "response" /\ r.status = 200
    /\ p \in {"backup", "oraimo_bq"} => r.ctype = "text/html; charset=utf-8"

\* C14: one fetch call makes at most RETRY_COUNT HTTP attempts; it returns
\* success at the first 200 response, makes another attempt, after a delay,
\* following a timeout, connection error or 5xx response, and after any 4xx
\* response returns failure at once, without a further attempt.
C14_FetchRetryDiscipline ==
    call.result # "no call" /\ prog \in {"by_store_id", "optimized", "oraimo_bq"} =>
        /\ Len(call.http) <= RETRY_COUNT
        /\ \A i \in 1..Len(call.http) :
            LET r == call.http[i]
            IN  /\ r.kind = "response" /\ r.status = 200 =>
                    i = Len(call.http) /\ call.result = "body" /\ pc = "returned"
                /\ Status4xx(r) =>
                    i = Len(call.http) /\ call.result = "none" /\ pc = "returned"
                /\ Transient(r) /\ i < RETRY_COUNT =>
                    pc = "attempt" \/ (Len(call.http) > i /\ call.sleeps >= i)

\* C14, amended: one fetch call makes at most RETRY_COUNT HTTP attempts. It
\* returns success at the first response it accepts: status 200, and in
\* kilimall_scraper_backup.py and the oraimo scrapers also a Content-Type
\* holding text/html. After a 4xx response it returns failure at once. Every
\* other outcome (timeout, connection error, 5xx, any other status, and in
\* the backup and oraimo scrapers a 200 of another content type) is followed
\* by a delay and another attempt while attempts are left, and by failure
\* after attempt RETRY_COUNT.
C14_FetchRetriesWhatItDoesNotAccept ==
    call.result # "no call" =>
        /\ Len(call.http) <= RETRY_COUNT
        /\ \A i \in 1..Len(call.http) :
            LET r == call.http[i]
            IN  /\ Good200(prog, r) =>
                    i = Len(call.http) /\ call.result = "body" /\ pc = "returned"
                /\ Status4xx(r) =>
                    i = Len(call.http) /\ call.result = "none" /\ pc = "returned"
                /\ ~Good200(prog, r) /\ ~Status4xx(r) /\ i < RETRY_COUNT =>
                    pc = "attempt" \/ Len(call.http) > i
                /\ i > 1 => call.sleeps >= i - 1
        /\ pc = "returned" /\ call.result = "none" =>
            \/ Status4xx(call.http[Len(call.http)])
            \/ Len(call.http) = RETRY_COUNT
        /\ pc = "attempt" =>
            /\ call.result = "pending"
            /\ Len(call.http) < RETRY_COUNT => call.sleeps = Len(call.http)

\* The oraimo fetch got a 200 that is not HTML, slept, ran into a timeout,
\* slept, and returned the text of the HTML response of its last attempt.
C14_Witness ==
    /\ prog = "oraimo_bq" /\ pc = "returned"
    /\ call.http = << Response(200, "application/json"), Raised("timeout"),
                      Response(200, "text/html; charset=utf-8") >>
    /\ call.sleeps = 2
    /\ call.result = "body"

\* ------------------------------------------------------------------ C15
\* The content type the caller of fetch can use: HTML, and for
\* kilimall_scraper.py and kilimall_scraper_optimized.py, whose caller
\* unwraps JSON envelopes, JSON as well.
ExpectedType(p, ctype) ==
    \/ ctype = "text/html; charset=utf-8"
    \/ p \in {"by_store_id", "optimized"} /\ ctype = "application/json"

\* The last outcome of the call.
LastOutcome == call.http[Len(call.http)]

\* C15: fetch reports success only for a 2xx response with the expected
\* content type; every non-2xx response, and every 2xx response whose
\* content type is unexpected, is reported as failure.
C15_SuccessOnly2xxOfExpectedType ==
    call.result = "body" /\ prog \in {"by_store_id", "backup", "oraimo_bq"} =>
        /\ LastOutcome.kind = "response"
        /\ LastOutcome.status \in 200..299
        /\ ExpectedType(prog, LastOutcome.ctype)

\* C15, amended: fetch reports success only for a response of status 200,
\* and in kilimall_scraper_backup.py and the oraimo scrapers only when its
\* Content-Type holds text/html; kilimall_scraper.py and
\* kilimall_scraper_optimized.py look at no content type and report success
\* for every 200. A call whose last outcome is anything else (another 2xx
\* included) returns no body, and a call that got such a 200 returns its
\* body at once.
C15_SuccessOnlyFor200 ==
    /\ call.result = "body" =>
        /\ LastOutcome.kind = "response"
        /\ LastOutcome.status = 200
        /\ prog \in {"backup", "oraimo_bq"} =>
               LastOutcome.ctype = "text/html; charset=utf-8"
    /\ call.result = "none" => ~Good200(prog, LastOutcome)
    /\ pc = "attempt" /\ call.http # <<>> =>
        /\ ~Good200(prog, LastOutcome)
        /\ prog \in {"by_store_id", "optimized"} => LastOutcome.status # 200

\* fetch of kilimall_scraper.py returned the body of a 200 response that
\* carries no Content-Type, after a 204 it did not take.
C15_Witness ==
    /\ prog = "by_store_id" /\ pc = "returned"
    /\ call.http = << Response(204, "text/html; charset=utf-8"), Response(200, "") >>
    /\ call.result = "body"

\* ------------------------------------------------------------------ C16
\* C16 in scrape_store_optimized: the step of a page whose fetch failed, like
\* the step of a page without a new product, adds no row, tracks nothing,
\* counts no product, and ends the strategy unless the page is the first of
\* several, in which case the next page is due; the crawl is not left.
C16_OptimizedFailedPageIsEmptyPage ==
    [][(/\ prog = "optimized" /\ pc = "page"
        /\ ~html_ok' \/ new_products' = 0)
       => /\ rows' = rows /\ seen' = seen
          /\ new_products' = 0 /\ strategy_found' = strategy_found
          /\ requests' = requests + 1
          /\ si' = si
          /\ IF vi = 1 /\ Len(StrategyValues(strategies[si])) > 1
                 THEN pc' = "page" /\ vi' = 2
                 ELSE pc' = "strategy_end"]_vars

\* C16 in scrape_by_store_id: a candidate URL that brings no item, its fetch
\* failed or its page empty, adds nothing and is followed by the next
\* candidate of the page, or by the end of the page step; a page step none
\* of whose candidates brought an item adds one to empty_streak and leads to
\* the next page.
C16_ByStoreIdFailedPageIsEmptyPage ==
    [][/\ (prog = "by_store_id" /\ pc = "candidate" /\ rows' = rows)
           => /\ seen' = seen /\ ~got_new'
              /\ page' = page /\ empty_streak' = empty_streak
              /\ IF cand = Len(subpage_candidates(page))
                     THEN pc' = "page_end"
                     ELSE pc' = "candidate" /\ cand' = cand + 1
       /\ (prog = "by_store_id" /\ pc = "page_end" /\ ~got_new)
           => /\ empty_streak' = empty_streak + 1
              /\ page' = page + 1 /\ pc' = "while"
              /\ rows' = rows /\ seen' = seen]_vars

\* C16: a page whose fetch fails is handled like a page with no content: it
\* adds no record, counts toward the empty-page and exhaustion logic like a
\* page without a new item, and never ends the crawl.
C16_FailedPageIsEmptyPage ==
    C16_OptimizedFailedPageIsEmptyPage /\ C16_ByStoreIdFailedPageIsEmptyPage

\* A strategy got products from its first page and the fetch of its second
\* page failed: nothing was counted for it and the strategy is over, with
\* strategies still to run.
C16_Witness ==
    /\ prog = "optimized" /\ pc = "strategy_end" /\ ~html_ok
    /\ vi = 2 /\ fetched[si] = 2
    /\ new_products = 0 /\ strategy_found > 0
    /\ si < Len(strategies)

\* ------------------------------------------------------------------ C17
\* C17: canonicalisation is idempotent: canonical_product_url applied to its
\* own result gives that result again.
C17_CanonicalisationIdempotent ==
    url.applied = 2 => url.twice = url.once

\* ------------------------------------------------------------------ C18
\* The text t without the slashes it ends with.
WithoutTrailingSlashes(t) ==
    LET k == CHOOSE n \in 0..Len(t) :
                 /\ n = 0 \/ t[n] # "/"
                 /\ \A j \in (n + 1)..Len(t) : t[j] = "/"
    IN  SubSeq(t, 1, k)

\* The text t without one slash at its end, if it ends with one.
WithoutOneTrailingSlash(t) ==
    IF t # <<>> /\ t[Len(t)] = "/" THEN SubSeq(t, 1, Len(t) - 1) ELSE t

\* A path as it is written after a host.
AfterHost(t) == IF t # <<>> /\ Head(t) # "/" THEN <<"/">> \o t ELSE t

\* The URL texts with the path text of u and any scheme, host, query and
\* fragment.
SamePathTexts(u, schemes) ==
    { UrlText(s, h, u.path, q, f) :
        s \in schemes,
        h \in { hh \in {"", KilimallHost, "m.kilimall.co.ke"} : PathFits(hh, u.path) },
        q \in {"", "from=store"},
        f \in {"", "reviews"} }

\* C18: canonical_product_url drops query and fragment, forces the scheme of
\* the storefront (https), forces its host, and strips a single trailing
\* slash from the path; two URLs that differ only in scheme, host, query or
\* fragment have the same canonical URL.
C18_ForcesSchemeStripsOneSlash ==
    url.applied >= 1 =>
        /\ url.once.query = "" /\ url.once.fragment = ""
        /\ url.once.scheme = "https"
        /\ url.once.host = KilimallHost
        /\ url.once.path =
               AfterHost(WithoutOneTrailingSlash(SplitParams(url.given.path).path))
        /\ \A v \in SamePathTexts(url.given, {"", "http", "https"}) :
               CanonicalText(v) = url.once

\* C18, amended: canonical_product_url drops query, fragment and path
\* parameters, keeps the scheme of the URL (https when it has none), forces
\* the host www.kilimall.co.ke, and strips every trailing slash from the
\* path; two URLs that differ only in host, query or fragment have the same
\* canonical URL, and so have a URL without a scheme and its https form.
C18_KeepsSchemeStripsEverySlash ==
    url.applied >= 1 =>
        /\ url.once.query = "" /\ url.once.fragment = ""
        /\ url.once.scheme =
               (IF url.given.scheme = "" THEN "https" ELSE url.given.scheme)
        /\ url.once.host = KilimallHost
        /\ url.once.path =
               AfterHost(WithoutTrailingSlashes(SplitParams(url.given.path).path))
        /\ \A v \in SamePathTexts(url.given,
                                  IF url.given.scheme = "http" THEN {"http"}
                                  ELSE {"", "https"}) :
               CanonicalText(v) = url.once

\* An http URL of the mobile host with two trailing slashes, a query and a
\* fragment was made the http URL of the fixed host with the bare path.
C18_Witness ==
    /\ url.applied >= 1
    /\ url.given = UrlText("http", "m.kilimall.co.ke", <<"/", "x", "/", "/">>,
                           "from=store", "reviews")
    /\ url.once = UrlText("http", KilimallHost, <<"/", "x">>, "", "")

\* ------------------------------------------------------------------ C19
\* The HTML texts the JSON object o carries in one of the fields html, data,
\* content, body.
Carried(o) ==
    { o[i].value.text : i \in { j \in 1..Len(o) :
          /\ o[j].key \in {"html", "data", "content", "body"}
          /\ o[j].value.type = "string" } }

\* C19, scenario C: for every HTML text h, a JSON envelope carrying h in its
\* html, data, content or body field is unwrapped, and the tiles parsed from
\* the result are the tiles parsed from h given as raw HTML.
C19_EnvelopeParsedLikeRawHtml ==
    extract.step = "parsed" /\ extract.body.kind = "json" =>
        \A h \in Carried(extract.body.fields) :
            extract.tiles = parse_product_tiles(HtmlBody(h))

\* The field the decoder takes: the first of html, data, content, body that
\* holds a non-blank string; 0 when the object has none.
TakenField(o) ==
    LET holds(k) == \E i \in 1..Len(o) :
                        /\ o[i].key = k /\ o[i].value.type = "string"
                        /\ \E n \in 1..Len(o[i].value.text) :
                               o[i].value.text[n] # TextRun(" ")
        order == <<"html", "data", "content", "body">>
    IN  IF \E n \in 1..4 : holds(order[n])
            THEN LET first == CHOOSE n \in 1..4 :
                                  holds(order[n]) /\ \A n2 \in 1..(n - 1) : ~holds(order[n2])
                 IN  CHOOSE i \in 1..Len(o) : o[i].key = order[first]
            ELSE 0

\* C19, amended: a JSON envelope is unwrapped to the string of the first of
\* its fields html, data, content, body, in this order, that holds a
\* non-blank string, and the tiles parsed from the result are the tiles
\* parsed from that string given as raw HTML; the strings of its other
\* fields are not looked at.
C19_FirstNonBlankFieldParsedLikeRawHtml ==
    extract.body.kind = "json" /\ TakenField(extract.body.fields) # 0 =>
        LET h == extract.body.fields[TakenField(extract.body.fields)].value.text
        IN  /\ extract.step \in {"decoded", "parsed"} => extract.html = HtmlBody(h)
            /\ extract.step = "parsed" =>
                   extract.tiles = parse_product_tiles(HtmlBody(h))

\* The envelope {"data": "<a href=/listing/1 ...>text"} gave the tile of
\* its anchor.
C19_Witness ==
    /\ extract.step = "parsed"
    /\ extract.body = JsonBody(<< Field("data",
                           StringValue(<< Anchor("/listing/1"), TextRun("text") >>)) >>)
    /\ extract.tiles = << Tile("/listing/1", FALSE) >>

\* ------------------------------------------------------------------ C20
\* A JSON envelope none of whose fields html, data, content, body is a
\* non-blank string.
NothingToUnwrap(b) ==
    /\ b.kind = "json"
    /\ \A i \in 1..Len(b.fields) :
           b.fields[i].key \in {"html", "data", "content", "body"} =>
               \/ b.fields[i].value.type # "string"
               \/ \A n \in 1..Len(b.fields[i].value.text) :
                      b.fields[i].value.text[n] = TextRun(" ")

\* The empty string, garbage, or an envelope with nothing to unwrap.
NoHtmlGiven(b) ==
    \/ b = HtmlBody(<<>>)
    \/ b.kind = "garbage"
    \/ NothingToUnwrap(b)

\* C20: tile extraction returns an empty list and never raises for the empty
\* string, for non-HTML garbage and for a JSON envelope with none of the
\* fields html, data, content, body as a non-blank string; garbage and such
\* an envelope are treated as HTML directly.
C20_NoHtmlGivesNoTiles ==
    NoHtmlGiven(extract.body) =>
        /\ extract.step \in {"decoded", "parsed"} /\ extract.body.kind # "html" =>
               extract.html = extract.body
        /\ extract.step = "parsed" => extract.tiles = <<>>

\* C20, amended: for the empty string, for non-HTML garbage and for a JSON
\* envelope with none of the fields html, data, content, body as a non-blank
\* string, decoding never raises and gives the input as it is, which is then
\* read as HTML: the empty string and garbage give an empty list, and an
\* envelope gives an empty list exactly when the text of none of its strings
\* holds a product anchor.
C20_NoHtmlIsParsedAsGiven ==
    NoHtmlGiven(extract.body) =>
        /\ extract.step \in {"decoded", "parsed"} => extract.html = extract.body
        /\ extract.step = "parsed" =>
               IF extract.body.kind = "json"
                   THEN extract.tiles = <<>> <=>
                            \A i \in 1..Len(extract.body.fields) :
                                extract.body.fields[i].value.type = "string" =>
                                    \A n \in 1..Len(extract.body.fields[i].value.text) :
                                        extract.body.fields[i].value.text[n].tag # "a"
                   ELSE extract.tiles = <<>>

\* The envelope {"html": " ", "result": "<a href=/listing/1 ...>"} was given
\* to the parser as it is, and the anchor in its text gave a tile.
C20_Witness ==
    /\ extract.step = "parsed"
    /\ extract.body = JsonBody(<< Field("html", StringValue(<< TextRun(" ") >>)),
                                  Field("result", StringValue(<< Anchor("/listing/1") >>)) >>)
    /\ extract.html = extract.body
    /\ extract.tiles = << Tile("/listing/1", TRUE) >>

\* ------------------------------------------------------------------ C21
\* The tile of scenario B: href /listing/1001, an empty title attribute,
\* inner text "KSh 1,200", and the text "Widget X (12)" in the element el
\* of class product-title; no other text on the tile.
ScenarioB(dom, el) ==
    /\ dom.href = [dir |-> "listing", digits |-> "1001"]
    /\ dom.text["inner"] = << "KSh 1,200" >>
    /\ el \in dom.titled
    /\ dom.text[el] = << "Widget X", "(12)" >>
    /\ \A p \in Places \ {"inner", el} : dom.text[p] = <<>>

Accepted(c) ==
    /\ clean_title(c) # <<>>
    /\ \A i \in 1..Len(clean_title(c)) : clean_title(c)[i] # "KSh 1,200"
    /\ CountAlpha(clean_title(c)) >= 3

\* The accepted candidate of the earliest stage that has one, cleaned.
RECURSIVE EarliestAccepted(_)
EarliestAccepted(stages) ==
    IF stages = <<>> THEN <<>>
    ELSE LET accepted == SelectSeq(Head(stages), Accepted)
         IN  IF accepted # <<>> THEN clean_title(Head(accepted))
             ELSE EarliestAccepted(Tail(stages))

\* The first three stages: title and aria-label; the inner text; alt, or
\* without an alt the title, of the enclosed image.
AnchorStages(dom) ==
    << << dom.text["title"], dom.text["aria-label"] >>,
       << dom.text["inner"] >>,
       << IF dom.text["alt"] # <<>> THEN dom.text["alt"] ELSE dom.text["img-title"] >> >>

\* The last stage: a label-like attribute.
LabelStage(dom) == << << dom.text["data-name"] >> >>

\* The title-like ancestors of the anchor, nearest first.
TitledAncestors(dom) ==
    SelectSeq(<< "parent", "grandparent" >>, LAMBDA el : el \in dom.titled)

InsideCandidates(dom, ancestor) ==
    { clean_title(get_text(dom, el)) :
        el \in { e \in (IF ancestor = "parent" THEN {"sibling"}
                         ELSE {"parent", "sibling", "uncle"}) :
                   e \in dom.titled /\ Accepted(get_text(dom, e)) } }

C23_InterruptKeepsRecords ==
    [][pc' = "interrupted" => everything' \o rows' = everything \o rows]_vars

\* ------------------------------------------------------------------ C24
\* C24: the fetches of a crawl come one after the other, and between any two
\* consecutive fetch calls sleep_politely() is called: when a fetch is about
\* to be made and one was made before, there was a sleep since the last
\* HTTP request.
C24_DelayBetweenFetches ==
    pc \in {"pace_candidate", "pace_probe"} /\ call.result # "no call" =>
        call.sleeps > 0

\* ------------------------------------------------------------------ C25
\* C25: in scrape_by_store_id the consecutive-empty counter goes up by one
\* with every page step that yields no new record and back to 0 with every
\* page step that yields one; it stays within 0..MAX_EMPTY_PAGES; and the
\* page loop stops exactly when the counter has reached MAX_EMPTY_PAGES or
\* the page index has passed MAX_PAGES_PER_STORE.
C25_EmptyPageCounter ==
    /\ [](prog = "by_store_id" => empty_streak \in 0..MAX_EMPTY_PAGES)
    /\ [][prog = "by_store_id" =>
            \* a candidate yields a record exactly when the page is marked,
            \* and a marked page takes no further candidate
            /\ pc = "candidate" =>
                   /\ got_new' = (Len(rows') > Len(rows))
                   /\ got_new' => pc' = "page_end"
            \* the page step ends: up by one, or back to 0
            /\ page' # page =>
                   /\ page' = page + 1
                   /\ empty_streak' = (IF got_new THEN 0 ELSE empty_streak + 1)
            /\ page' = page /\ pc' # "while" => empty_streak' = empty_streak
            \* the loop stops exactly on the two conditions
            /\ pc = "while" =>
                   (pc' = "done" <=> (empty_streak = MAX_EMPTY_PAGES \/ page > MAX_PAGES_PER_STORE))
      ]_vars

\* The crawl saw MAX_EMPTY_PAGES pages in a row without a new item and
\* returned before the page cap.
C25_Witness ==
    /\ prog = "by_store_id" /\ pc = "done"
    /\ empty_streak = MAX_EMPTY_PAGES
    /\ page <= MAX_PAGES_PER_STORE

\* ------------------------------------------------------------------ C26
\* The href attribute of anchor i of the page, as it is written.
RawHref(i) == << extract.doc[i].pad, extract.doc[i].body >>

\* C26: parse_product_tiles emits at most one record per distinct raw href
\* of the page, built from the first anchor that carries this href, and no
\* record for an anchor whose href, or data-href in its place, is empty,
\* '#' or a javascript: pseudo-URL.
C26_OneRecordPerHref ==
    extract.step = "out" =>
        /\ \A k \in 1..Len(extract.out) :
               LET i == extract.out[k].anchor
                   a == extract.doc[i]
                   href == IF a.pad = "" /\ a.body = "" THEN a.data ELSE a.body
               IN  /\ i \in 1..Len(extract.doc)
                   /\ \A j \in 1..(i - 1) : RawHref(j) # RawHref(i)
                   /\ href \notin {"", "#", "javascript:open('/listing/1')"}
        /\ \A k1, k2 \in 1..Len(extract.out) :
               k1 # k2 => RawHref(extract.out[k1].anchor) # RawHref(extract.out[k2].anchor)

\* Three anchors, the first a javascript: link and the others with the
\* same href: one record, of the second anchor.
C26_Witness ==
    /\ extract.step = "out"
    /\ Len(extract.doc) = 3
    /\ extract.doc[1].body = "javascript:open('/listing/1')"
    /\ extract.doc[2].body = "/listing/1" /\ extract.doc[2].pad = ""
    /\ extract.doc[3] = extract.doc[2]
    /\ extract.out = << [href |-> "/listing/1", anchor |-> 2] >>

\* ------------------------------------------------------------------ C27
\* The URL of the tile in canonical form: https, the shop's host, the path.
TileCanon ==
    [scheme |-> "https", host |-> "www.kilimall.co.ke", path |-> extract.dom.href,
     slashes |-> 0, query |-> "", fragment |-> ""]

\* The tile is a listing tile for the scraper: its href begins with
\* /listing/ (the other product patterns count for kilimall_scraper.py only).
ListingTile == prog = "tile" \/ extract.dom.href.dir = "listing"

\* The tile was emitted by the parser, is kept under its canonical URL, and
\* is in the rows handed to the sink, as far as the run has come.
TileKept ==
    /\ pc \in {"appended", "merged", "exit"} =>
           Len(extract.out) = 1 /\ extract.out[1].product_title = extract.title
    /\ pc \in {"merged", "exit"} =>
           /\ seen = {TileCanon}
           /\ Len(rows) = 1 /\ rows[1].product_url = TileCanon
           /\ rows[1].product_title = extract.title
    /\ pc = "exit" =>
           Len(writes) = 1 /\ writes[1].rows = rows

\* C27: no listing tile is dropped because a field could not be resolved: a
\* tile whose URL holds no listing identifier, or whose title cascade
\* yields nothing, is emitted with that field as the empty string, kept in
\* the records under its canonical URL, and is in the rows written to the
\* sink.
C27_NoTileDropped ==
    ListingTile =>
        /\ TileKept
        /\ pc \in {"appended", "merged", "exit"} /\ prog = "tile" =>
               extract.out[1].listing_id =
                   (IF extract.dom.href.dir = "listing" THEN extract.dom.href.digits ELSE "")

\* C27, amended: in kilimall_scraper.py no tile is dropped because a field
\* could not be resolved: it is emitted with an empty title or an empty
\* listing id, kept under its canonical URL and written to the sink. In
\* kilimall_scraper_optimized.py a listing tile without a title (none in
\* the title or aria-label attribute, in the text of the link or in a
\* title element of its container) is dropped by parse_products and is
\* neither kept nor written; with a title it is kept and written.
C27_NoTileDroppedButUntitledInOptimized ==
    LET dom == extract.dom
        untitled ==
            /\ dom.text["title"] = <<>> /\ dom.text["aria-label"] = <<>>
            /\ dom.text["inner"] = <<>>
            /\ \/ "parent" \in dom.titled /\
                      ("sibling" \notin dom.titled \/ dom.text["sibling"] = <<>>)
               \/ "parent" \notin dom.titled /\
                      IF "sibling" \in dom.titled THEN dom.text["sibling"] = <<>>
                      ELSE ("uncle" \notin dom.titled \/ dom.text["uncle"] = <<>>)
    IN  ListingTile =>
            IF prog = "tile_optimized" /\ untitled
                THEN /\ pc \in {"appended", "merged", "exit"} => extract.out = <<>>
                     /\ rows = <<>> /\ writes = <<>>
                ELSE /\ TileKept
                     /\ pc \in {"appended", "merged", "exit"} /\ prog = "tile" =>
                            extract.out[1].listing_id =
                                (IF dom.href.dir = "listing" THEN dom.href.digits ELSE "")

\* A tile of kilimall_scraper.py without a title and without a listing
\* identifier went to the sink.
C27_Witness ==
    /\ prog = "tile" /\ pc = "exit"
    /\ extract.dom.href = [dir |-> "item", digits |-> "1001"]
    /\ Len(writes) = 1
    /\ writes[1].rows[1].product_title = <<>>
    /\ writes[1].rows[1].listing_id = ""

\* ------------------------------------------------------------------ C28
\* The place of a parameter variant in the fixed order of the variants.
VariantPlace(v) ==
    CHOOSE k \in 1..7 :
        << "typeName&pageNum", "typeName&page", "typeName&pageNo", "pageNum&typeName",
           "typeName&pageNum&pageSize=36", "typeName&pageNum&pageSize=32",
           "typeName&pageNum&pageSize=48" >>[k] = v

\* The candidates of page p come in generation order: the zero-based index
\* p - 1 under every variant, then the one-based index p under every
\* variant, the variants in their fixed order.
GenerationOrder(p) ==
    LET c == subpage_candidates(p)
    IN  /\ Len(c) = 14
        /\ \A k \in 1..14 :
               /\ c[k].idx = (IF k <= 7 THEN p - 1 ELSE p)
               /\ VariantPlace(c[k].variant) = ((k - 1) % 7) + 1

\* C28: in each page step of scrape_by_store_id the candidate URLs are
\* fetched in generation order; at most one candidate adds records in the
\* page step, the first one that yields a new record, and no candidate
\* after it is fetched in that step.
C28_FirstProductiveCandidateEndsPageStep ==
    /\ [](prog = "by_store_id" /\ pc = "candidate" =>
            /\ GenerationOrder(page)
            /\ cand \in 1..14
            \* nothing was added in this page step so far
            /\ ~got_new)
    /\ [][prog = "by_store_id" =>
            \* the page step starts with the first candidate
            /\ pc = "while" /\ pc' = "candidate" => cand' = 1
            /\ pc = "candidate" =>
                   /\ requests' = requests + 1
                   \* the candidate that adds records ends the page step
                   /\ Len(rows') > Len(rows) => pc' = "page_end" /\ got_new'
                   \* else the next candidate in order follows, if there is one
                   /\ Len(rows') = Len(rows) =>
                          /\ rows' = rows /\ ~got_new'
                          /\ IF cand < 14 THEN pc' = "candidate" /\ cand' = cand + 1
                             ELSE pc' = "page_end"
            \* outside a candidate step no fetch is made and nothing is added
            /\ pc # "candidate" => requests' = requests /\ rows' = rows
      ]_vars

\* The second candidate of a page added a record and ended the page step.
C28_Witness ==
    /\ prog = "by_store_id" /\ pc = "page_end"
    /\ cand = 2 /\ got_new
    /\ requests = 2
    /\ Len(rows) > 0

\* ------------------------------------------------------------------ C29
\* How many times row x stands in the sequence s.
Times(x, s) == Cardinality({ i \in 1..Len(s) : s[i] = x })

\* C29: when append_rows returns normally, every row handed to it is in the
\* worksheet exactly once more than before, none lost and none duplicated,
\* also when the batch append raised and the per-row fallback ran.
C29_EveryRowExactlyOnce ==
    prog = "append_rows" /\ pc = "returned" =>
        \A x \in BatchRows \cup {"header"} :
            Times(x, extract.sheet) = Times(x, extract.before) + Times(x, extract.rows)

\* ------------------------------------------------------------------ C30
\* The product URLs discovered in the categories read so far.
Discovered == UNION { Range(extract.cat_to_urls[c]) : c \in 1..Len(extract.cat_to_urls) }

\* The first category, in the order of the run, that discovered URL u.
FirstCategoryOf(u) ==
    LET first == CHOOSE c \in 1..Len(extract.cat_to_urls) :
                     /\ u \in Range(extract.cat_to_urls[c])
                     /\ \A b \in 1..(c - 1) : u \notin Range(extract.cat_to_urls[b])
    IN  CATEGORY_URLS[first]

\* The positions of the fetches of URL u, and of its products rows.
FetchesOf(u) == { i \in 1..Len(extract.fetched) : extract.fetched[i].url = u }
RowsOf(u) == { i \in 1..Len(extract.products_rows) : extract.products_rows[i].product_url = u }

\* C30: in run() of phones_scrap each distinct product URL discovered in
\* the categories is fetched at most once and has exactly one products
\* row, under the first category that discovered it, with scrape_error ''
\* on success, 'fetch_failed' when the fetch returned nothing and
\* 'parse_failed' when the parse raised; a failure on one product does not
\* stop the remaining URLs (at the end every discovered URL has its row).
C30_OneRowPerProductUrl ==
    prog = "phones" =>
        /\ \A u \in Range(ProductOrder) :
              /\ Cardinality(FetchesOf(u)) <= 1
              /\ Cardinality(RowsOf(u)) = Cardinality(FetchesOf(u))
              /\ FetchesOf(u) # {} => u \in Discovered
              /\ \A i \in RowsOf(u) :
                    LET row == extract.products_rows[i]
                        got == extract.fetched[CHOOSE f \in FetchesOf(u) : TRUE].outcome
                    IN  /\ row.category = FirstCategoryOf(u)
                        /\ got = "parsed" => row.scrape_error = ""
                        /\ got = "no_html" => row.scrape_error = "fetch_failed"
                        /\ got = "parse_raises" => row.scrape_error = "parse_failed"
        /\ Len(extract.products_rows) = Len(extract.fetched)
        /\ pc = "collected" => \A u \in Discovered : Cardinality(RowsOf(u)) = 1

\* The run ended; a URL found in two categories failed under the first one
\* and the URL after it was still handled.
C30_Witness ==
    /\ prog = "phones" /\ pc = "collected"
    /\ \E u \in Range(extract.cat_to_urls[1]) \cap Range(extract.cat_to_urls[2]) :
          \E i \in RowsOf(u) :
              /\ extract.products_rows[i].scrape_error # ""
              /\ extract.products_rows[i].category = CATEGORY_URLS[1]
              /\ i < Len(extract.products_rows)

====
